---- MODULE Spec2Model ----
(***************************************************************************)
(* Model of the calculation layer (lib/derived: computeDerived and its     *)
(* sub-derivations) and of the chat route's context serializer             *)
(* (buildContext) of the conversational crypto dashboard.                  *)
(*                                                                         *)
(* JavaScript values are tagged records [k |-> kind, ...]:                 *)
(*   undef, null, nan, inf, num (an exact rational n/d in lowest terms),   *)
(*   str (a sequence of tokens), bool, arr (a sequence of values), obj.    *)
(* A property an object does not carry reads as Undef, as in JavaScript.   *)
(***************************************************************************)
EXTENDS Integers, Sequences, FiniteSets, TLC

VARIABLES
    data,       \* the raw payloads by source key (fetch route's `data`)
    ticks,      \* the wall clock, in steps of TickMs milliseconds
    derived,    \* the last result of computeDerived (Undef before any call)
    stored,     \* the persisted `derived` blob as a reader gets it back
    chatDerived,\* the `derived` value the chat route last read
    context,    \* the context buildContext made of it (Undef before any call)
    secret,     \* process.env.APP_PASSWORD ("" when it is not set)
    now,        \* Date.now() as the routes read it, in milliseconds
    cookie,     \* the session cookie the browser holds (Null when none)
    req,        \* the request being served, or the last one answered
    log,        \* what the handler of that request has done outside itself
    blobs       \* the blob store: the parsed value under each key, or Null

libVars == <<data, ticks, derived, stored, chatDerived, context>>
svcVars == <<secret, now, cookie, req, log, blobs>>
vars == <<data, ticks, derived, stored, chatDerived, context,
          secret, now, cookie, req, log, blobs>>

-----------------------------------------------------------------------------
(* Bounds of the model *)

MaxExtra == 2       \* price series run up to 200 + MaxExtra samples
MaxStrLen == 2      \* quote strings have at most this many characters
MaxTicks == 2       \* the clock advances at most this many times
MaxTrending == 7    \* trending lists have at most this many entries
MaxCategories == 4  \* category lists have at most this many entries
TickMs == 600       \* milliseconds per clock step

-----------------------------------------------------------------------------
(* JavaScript values *)

Undef == [k |-> "undef"]
Null == [k |-> "null"]
NaN == [k |-> "nan"]
Inf(sign) == [k |-> "inf", s |-> sign]
Threw == [k |-> "threw"]
Bool(b) == [k |-> "bool", b |-> b]
Str(s) == [k |-> "str", s |-> s]
Arr(a) == [k |-> "arr", a |-> a]

Abs(i) == IF i < 0 THEN -i ELSE i

RECURSIVE GCD(_, _)
GCD(a, b) == IF b = 0 THEN a ELSE GCD(b, a % b)

\* The rational n/d (d # 0) in lowest terms with a positive denominator.
Rat(n, d) ==
    LET g == GCD(Abs(n), Abs(d))
        s == IF d < 0 THEN -1 ELSE 1
    IN [k |-> "num", n |-> (s * n) \div g, d |-> Abs(d) \div g]

Num(n) == [k |-> "num", n |-> n, d |-> 1]

\* x == null / x != null: true of both null and undefined.
IsNullish(v) == v.k \in {"undef", "null"}
IsArray(v) == v.k = "arr"
IsObject(v) == v.k = "obj"
\* typeof v === 'number' (NaN and Infinity are numbers).
IsNumberType(v) == v.k \in {"num", "nan", "inf"}

\* a ?? b
Coalesce(a, b) == IF IsNullish(a) THEN b ELSE a

\* o.f for a non-nullish o: the property, or undefined.
Get(o, f) == IF IsObject(o) /\ f \in DOMAIN o THEN o[f] ELSE Undef

\* o?.f
OptGet(o, f) == IF IsNullish(o) THEN Undef ELSE Get(o, f)

\* a[i] with a 0-based index i, for a non-nullish a: an element of an array, a
\* character of a string, undefined for anything else or out of range.
Index(a, i) ==
    IF IsArray(a) /\ i + 1 \in 1..Len(a.a) THEN a.a[i + 1]
    ELSE IF a.k = "str" /\ i + 1 \in 1..Len(a.s) THEN [k |-> "str", s |-> <<a.s[i + 1]>>]
    ELSE Undef

Digits == {"0", "1", "2", "3", "4", "5", "6", "7", "8", "9"}

DigitValue(c) ==
    CASE c = "0" -> 0 [] c = "1" -> 1 [] c = "2" -> 2 [] c = "3" -> 3 [] c = "4" -> 4
      [] c = "5" -> 5 [] c = "6" -> 6 [] c = "7" -> 7 [] c = "8" -> 8 [] c = "9" -> 9

RECURSIVE ParseDigits(_, _)
ParseDigits(s, acc) ==
    IF s = <<>> THEN acc ELSE ParseDigits(Tail(s), 10 * acc + DigitValue(Head(s)))

\* Number(v): the empty string is 0, a string of decimal digits is its value,
\* any other string is NaN; null is 0 and undefined is NaN.
ToNumber(v) ==
    CASE v.k = "num" -> v
      [] v.k = "nan" -> NaN
      [] v.k = "inf" -> v
      [] v.k = "null" -> Num(0)
      [] v.k = "undef" -> NaN
      [] v.k = "bool" -> IF v.b THEN Num(1) ELSE Num(0)
      [] v.k = "str" ->
            IF \A i \in 1..Len(v.s) : v.s[i] \in Digits
            THEN Num(ParseDigits(v.s, 0)) ELSE NaN
      [] OTHER -> NaN

\* a + b on numbers (null counts as 0, undefined as NaN).
JsAdd(a, b) ==
    LET x == ToNumber(a)
        y == ToNumber(b)
    IN IF x.k = "nan" \/ y.k = "nan" THEN NaN
       ELSE IF x.k = "inf" /\ y.k = "inf" THEN (IF x.s = y.s THEN x ELSE NaN)
       ELSE IF x.k = "inf" THEN x
       ELSE IF y.k = "inf" THEN y
       ELSE Rat(x.n * y.d + y.n * x.d, x.d * y.d)

JsNeg(a) ==
    LET x == ToNumber(a)
    IN CASE x.k = "nan" -> NaN
         [] x.k = "inf" -> Inf(-x.s)
         [] OTHER -> Rat(-x.n, x.d)

\* a - b
JsSub(a, b) == JsAdd(a, JsNeg(b))

Sign(i) == IF i < 0 THEN -1 ELSE IF i > 0 THEN 1 ELSE 0

\* a / b: x/0 is an infinity, 0/0 is NaN.
JsDiv(a, b) ==
    LET x == ToNumber(a)
        y == ToNumber(b)
    IN IF x.k = "nan" \/ y.k = "nan" THEN NaN
       ELSE IF x.k = "inf" THEN (IF y.k = "inf" THEN NaN
                                 ELSE Inf(x.s * (IF y.n < 0 THEN -1 ELSE 1)))
       ELSE IF y.k = "inf" THEN Num(0)
       ELSE IF y.n = 0 THEN (IF x.n = 0 THEN NaN ELSE Inf(Sign(x.n)))
       ELSE Rat(x.n * y.d, x.d * y.n)

\* a * b
JsMul(a, b) ==
    LET x == ToNumber(a)
        y == ToNumber(b)
    IN IF x.k = "nan" \/ y.k = "nan" THEN NaN
       ELSE IF x.k = "inf" \/ y.k = "inf"
            THEN LET sx == IF x.k = "inf" THEN x.s ELSE Sign(x.n)
                     sy == IF y.k = "inf" THEN y.s ELSE Sign(y.n)
                 IN IF sx * sy = 0 THEN NaN ELSE Inf(sx * sy)
       ELSE Rat(x.n * y.n, x.d * y.d)

\* Math.abs(a)
JsAbs(a) ==
    LET x == ToNumber(a)
    IN CASE x.k = "nan" -> NaN
         [] x.k = "inf" -> Inf(1)
         [] OTHER -> Rat(Abs(x.n), x.d)

\* a > b: false whenever either side is NaN.
JsGt(a, b) ==
    LET x == ToNumber(a)
        y == ToNumber(b)
    IN IF x.k = "nan" \/ y.k = "nan" THEN FALSE
       ELSE IF x.k = "inf" THEN x.s = 1 /\ ~(y.k = "inf" /\ y.s = 1)
       ELSE IF y.k = "inf" THEN y.s = -1
       ELSE x.n * y.d > y.n * x.d

\* a < b
JsLt(a, b) == JsGt(b, a)

\* a === 0 on a number
IsZero(v) == v.k = "num" /\ v.n = 0

\* arr.reduce((a, b) => a + b, 0) over s[lo..hi]. The code adds left to right;
\* on exact rationals the grouping does not change the sum, and halving the
\* range keeps the evaluation shallow for series of hundreds of samples.
RECURSIVE SumRange(_, _, _)
SumRange(s, lo, hi) ==
    IF lo > hi THEN Num(0)
    ELSE IF lo = hi THEN JsAdd(Num(0), s[lo])
    ELSE LET mid == (lo + hi) \div 2
         IN JsAdd(SumRange(s, lo, mid), SumRange(s, mid + 1, hi))

SumOf(s) == SumRange(s, 1, Len(s))

\* arr.slice(from, to) on a TLA+ sequence, 0-based and end-exclusive.
Slice(s, from, to) ==
    LET lo == IF from > Len(s) THEN Len(s) ELSE from
        hi == IF to > Len(s) THEN Len(s) ELSE to
    IN IF hi <= lo THEN <<>> ELSE SubSeq(s, lo + 1, hi)

\* arr.slice(-n): the last n elements (all of them when there are fewer).
SliceLast(s, n) == IF Len(s) <= n THEN s ELSE SubSeq(s, Len(s) - n + 1, Len(s))

\* The indices of the elements arr.filter keeps (the set `kept`), in order.
RECURSIVE KeepRange(_, _, _)
KeepRange(kept, lo, hi) ==
    IF lo > hi THEN <<>>
    ELSE IF lo = hi THEN (IF lo \in kept THEN <<lo>> ELSE <<>>)
    ELSE LET mid == (lo + hi) \div 2
         IN KeepRange(kept, lo, mid) \o KeepRange(kept, mid + 1, hi)

KeepIdx(kept) ==
    IF kept = {} THEN <<>>
    ELSE KeepRange(kept, 1, CHOOSE m \in kept : \A x \in kept : x <= m)

Pick(s, idx) == [j \in 1..Len(idx) |-> s[idx[j]]]

\* x.length, as far as the derivations read it: arrays and strings carry one.
LengthOf(v) ==
    CASE v.k = "arr" -> Num(Len(v.a))
      [] v.k = "str" -> Num(Len(v.s))
      [] OTHER -> Undef

\* !v for the values a length can take
IsFalsy(v) == IsNullish(v) \/ v.k = "nan" \/ IsZero(v) \/ (v.k = "bool" /\ ~v.b)
                \/ (v.k = "str" /\ v.s = <<>>)

-----------------------------------------------------------------------------
(* lib/derived: the global snapshot *)

\* Mutant: the envelope is ignored, the fields are read at top level.
globalRootOf_flat(g) == g

\* data.data ?? data
globalRootOf(g) == Coalesce(Get(g, "data"), g)

pickGlobal(g) ==
    LET root == globalRootOf(g)
        cap == Coalesce(OptGet(Get(root, "total_market_cap"), "usd"), Null)
        vol == Coalesce(OptGet(Get(root, "total_volume"), "usd"), Null)
        btc == Coalesce(OptGet(Get(root, "market_cap_percentage"), "btc"), Null)
        eth == Coalesce(OptGet(Get(root, "market_cap_percentage"), "eth"), Null)
        momentum == Coalesce(Get(root, "market_cap_change_percentage_24h_usd"), Null)
        updated == Coalesce(Get(root, "updated_at"), Null)
        num(x) == IF ~IsNullish(x) THEN ToNumber(x) ELSE Null
    IN [totalMarketCapUsd |-> num(cap),
        totalVolumeUsd |-> num(vol),
        btcPercent |-> num(btc),
        ethPercent |-> num(eth),
        momentum24h |-> num(momentum),
        updatedAt |-> num(updated)]

\* Mutant: the guard only excludes a zero cap (!== 0 for > 0).
volumeRatioDefined_nonzero(g) ==
    /\ ~IsNullish(g.totalMarketCapUsd)
    /\ ~IsNullish(g.totalVolumeUsd)
    /\ ~IsZero(g.totalMarketCapUsd)

\* The guard of the volume ratio: both operands present and the cap positive.
volumeRatioDefined(g) ==
    /\ ~IsNullish(g.totalMarketCapUsd)
    /\ ~IsNullish(g.totalVolumeUsd)
    /\ JsGt(g.totalMarketCapUsd, Num(0))

\* Mutant: the quotient is taken without the guard.
volumeRatioOf_unguarded(g) ==
    IF IsNullish(g.totalVolumeUsd) \/ IsNullish(g.totalMarketCapUsd) THEN Null
    ELSE JsDiv(g.totalVolumeUsd, g.totalMarketCapUsd)

volumeRatioOf(g) ==
    IF volumeRatioDefined(g) THEN JsDiv(g.totalVolumeUsd, g.totalMarketCapUsd) ELSE Null

\* Mutant: a snapshot without updated_at is stamped with the clock.
deriveFromGlobal_stamped(globalRaw) ==
    LET g == pickGlobal(Coalesce(globalRaw, [k |-> "obj"]))
    IN [k |-> "obj",
        volumeRatio |-> volumeRatioOf(g),
        btcDominancePercent |-> g.btcPercent,
        ethDominancePercent |-> g.ethPercent,
        marketMomentum24hPercent |-> g.momentum24h,
        updatedAt |-> Coalesce(g.updatedAt, Num(ticks))]

deriveFromGlobal(globalRaw) ==
    LET g == pickGlobal(Coalesce(globalRaw, [k |-> "obj"]))
    IN [k |-> "obj",
        volumeRatio |-> volumeRatioOf(g),
        btcDominancePercent |-> g.btcPercent,
        ethDominancePercent |-> g.ethPercent,
        marketMomentum24hPercent |-> g.momentum24h,
        updatedAt |-> g.updatedAt]

-----------------------------------------------------------------------------
(* lib/derived: the Bitcoin price series *)

MA_SHORT_DAYS == 50
MA_LONG_DAYS == 200

\* Mutant: the window is the first `days` samples (slice(0, days)).
maWindow_leading(values, days) == Slice(values, 0, days)

\* values.slice(-days): the window the average is taken over.
maWindow(values, days) == SliceLast(values, days)

\* p[1] of every sample throws on a null or undefined sample.
movingAverage(prices, days) ==
    IF ~IsArray(prices) \/ Len(prices.a) < days THEN Null
    ELSE IF \E i \in 1..Len(prices.a) : IsNullish(prices.a[i]) THEN Threw
    ELSE LET values == [i \in 1..Len(prices.a) |-> Index(prices.a[i], 1)]
             slice == maWindow(values, days)
             sum == SumOf(slice)
         IN JsDiv(sum, Num(Len(slice)))

\* Mutant: equality is folded into the golden cross (>= for >).
trendOf_inclusive(ma50, ma200) ==
    IF ~IsNullish(ma50) /\ ~IsNullish(ma200)
    THEN IF ~JsLt(ma50, ma200) THEN Str(<<"golden_cross">>)
         ELSE Str(<<"death_cross">>)
    ELSE Null

\* Mutant: the two crosses are exchanged.
trendOf_swapped(ma50, ma200) ==
    IF ~IsNullish(ma50) /\ ~IsNullish(ma200)
    THEN IF JsGt(ma50, ma200) THEN Str(<<"death_cross">>)
         ELSE IF JsLt(ma50, ma200) THEN Str(<<"golden_cross">>)
         ELSE Str(<<"neutral">>)
    ELSE Null

trendOf(ma50, ma200) ==
    IF ~IsNullish(ma50) /\ ~IsNullish(ma200)
    THEN IF JsGt(ma50, ma200) THEN Str(<<"golden_cross">>)
         ELSE IF JsLt(ma50, ma200) THEN Str(<<"death_cross">>)
         ELSE Str(<<"neutral">>)
    ELSE Null

deriveFromBitcoinChart(raw) ==
    LET prices == OptGet(raw, "prices")
    IN IF IsNullish(prices) \/ IsFalsy(LengthOf(prices))
       THEN [k |-> "obj", ma50 |-> Null, ma200 |-> Null, currentPrice |-> Null, trend |-> Null]
       ELSE LET ma50 == movingAverage(prices, MA_SHORT_DAYS)
                ma200 == movingAverage(prices, MA_LONG_DAYS)
                last == Index(prices, LengthOf(prices).n - 1)
                currentPrice == IF ~IsNullish(last) THEN Index(last, 1) ELSE Null
            IN IF ma50 = Threw \/ ma200 = Threw THEN Threw
               ELSE [k |-> "obj", ma50 |-> ma50, ma200 |-> ma200,
                     currentPrice |-> currentPrice, trend |-> trendOf(ma50, ma200)]

-----------------------------------------------------------------------------
(* lib/derived: the ranked asset list *)

TOP10_END == 10
NEXT90_END == 100

change24hOf(c) == Get(c, "price_change_percentage_24h")

\* avg: the mean of the numeric 24h changes of a segment, or null.
avgChange(arr) ==
    LET all == [i \in 1..Len(arr) |-> change24hOf(arr[i])]
        vals == Pick(all, KeepIdx({i \in 1..Len(all) : IsNumberType(all[i])}))
    IN IF Len(vals) > 0 THEN JsDiv(SumOf(vals), Num(Len(vals))) ELSE Null

has24h(c) == ~IsNullish(change24hOf(c))

\* Mutant: a change of exactly 0 counts as positive (>= for >).
isAboveZero_inclusive(c) == ~JsLt(Coalesce(change24hOf(c), Num(0)), Num(0))

\* Mutant: the second segment runs to the end of the list.
next90Of_unbounded(raw) == Slice(raw, TOP10_END, Len(raw))

\* raw.slice(10, 100)
next90Of(raw) == Slice(raw, TOP10_END, NEXT90_END)

isAboveZero(c) == JsGt(Coalesce(change24hOf(c), Num(0)), Num(0))

deriveFromTopCoins(raw) ==
    IF IsNullish(raw) \/ ~IsArray(raw) \/ Len(raw.a) = 0
    THEN [k |-> "obj", marketBreadthAbove50Percent |-> Null,
          avgPriceChange24hTop10 |-> Null, avgPriceChange24hNext90 |-> Null]
    ELSE IF \E i \in 1..Len(raw.a) : IsNullish(raw.a[i]) THEN Threw
    ELSE LET with24h == Pick(raw.a, KeepIdx({i \in 1..Len(raw.a) : has24h(raw.a[i])}))
             aboveZero == Pick(with24h, KeepIdx({i \in 1..Len(with24h) : isAboveZero(with24h[i])}))
             breadth == IF Len(with24h) > 0
                        THEN JsMul(JsDiv(Num(Len(aboveZero)), Num(Len(with24h))), Num(100))
                        ELSE Null
             top10 == Slice(raw.a, 0, TOP10_END)
             next90 == next90Of(raw.a)
         IN [k |-> "obj", marketBreadthAbove50Percent |-> breadth,
             avgPriceChange24hTop10 |-> avgChange(top10),
             avgPriceChange24hNext90 |-> avgChange(next90)]

-----------------------------------------------------------------------------
(* lib/derived: trending coins and categories *)

TOP_TREND_RANK_LIMIT == 100
MOONSHOT_RANK_LIMIT == 500
TOP_TRENDING_SHOWN == 5
TOP_SECTORS_SHOWN == 3

\* String(v) as a token sequence, for the values that reach a template literal.
JsString(v) ==
    CASE v.k = "str" -> v.s
      [] v.k = "num" -> IF v.d = 1 THEN <<ToString(v.n)>>
                        ELSE <<ToString(v.n), "/", ToString(v.d)>>
      [] v.k = "bool" -> IF v.b THEN <<"true">> ELSE <<"false">>
      [] v.k = "nan" -> <<"NaN">>
      [] v.k = "inf" -> IF v.s < 0 THEN <<"-Infinity">> ELSE <<"Infinity">>
      [] v.k = "null" -> <<"null">>
      [] v.k = "undef" -> <<"undefined">>
      [] OTHER -> <<"[object Object]">>

rankOf(c) == Coalesce(OptGet(Get(c, "item"), "market_cap_rank"), Num(0))

trendingLabel(c) ==
    Str(JsString(Coalesce(OptGet(Get(c, "item"), "name"), Str(<<"Unknown">>)))
        \o <<" (">>
        \o JsString(Coalesce(OptGet(Get(c, "item"), "symbol"), Str(<<"?">>)))
        \o <<")">>)

sectorChange(cat) == Get(cat, "market_cap_change_24h")

\* The comparator of the sector sort: negative when a goes before b.
sectorCompare(a, b) ==
    JsSub(Coalesce(sectorChange(b), Num(0)), Coalesce(sectorChange(a), Num(0)))

\* Array.prototype.sort is stable: x goes before the first element it strictly precedes.
RECURSIVE InsertSorted(_, _)
InsertSorted(x, s) ==
    IF s = <<>> THEN <<x>>
    ELSE IF JsLt(sectorCompare(x, Head(s)), Num(0)) THEN <<x>> \o s
    ELSE <<Head(s)>> \o InsertSorted(x, Tail(s))

RECURSIVE SortSectors(_, _)
SortSectors(s, acc) ==
    IF s = <<>> THEN acc ELSE SortSectors(Tail(s), InsertSorted(Head(s), acc))

hasSectorChange(cat) == ~IsNullish(sectorChange(cat))

sectorEntry(cat) ==
    [k |-> "obj",
     name |-> Coalesce(Get(cat, "name"), Str(<<"Unknown">>)),
     change24h |-> Coalesce(sectorChange(cat), Num(0))]

\* Mutant: the `?? []` default is missing.
trendingCoinsOf_noDefault(trendingRaw) == OptGet(trendingRaw, "coins")

\* trendingRaw?.coins ?? []
trendingCoinsOf(trendingRaw) == Coalesce(OptGet(trendingRaw, "coins"), Arr(<<>>))

\* Mutant: the rank that counts is the highest of the list, not the first.
topTrendingRankOf_highest(ranks) ==
    IF ranks = <<>> THEN Num(0)
    ELSE CHOOSE r \in {ranks[i] : i \in 1..Len(ranks)} :
            \A i \in 1..Len(ranks) : ~JsGt(ranks[i], r)

\* ranks[0] ?? 0
topTrendingRankOf(ranks) == Coalesce(Index(Arr(ranks), 0), Num(0))

\* Mutant: only the entries shown as labels are looked at.
moonshotOf_shownOnly(ranks) ==
    \E i \in 1..Len(ranks) :
        i <= TOP_TRENDING_SHOWN /\ JsGt(ranks[i], Num(MOONSHOT_RANK_LIMIT))

\* ranks.some((r) => r > 500)
moonshotOf(ranks) == \E i \in 1..Len(ranks) : JsGt(ranks[i], Num(MOONSHOT_RANK_LIMIT))

\* Mutant: the category list is used as it comes, without the [] default.
categoriesOf_noDefault(categoriesRaw) == categoriesRaw

\* Array.isArray(categoriesRaw) ? categoriesRaw : []
categoriesOf(categoriesRaw) ==
    IF ~IsNullish(categoriesRaw) /\ IsArray(categoriesRaw) THEN categoriesRaw ELSE Arr(<<>>)

deriveDiscovery(trendingRaw, categoriesRaw) ==
    LET trendingCoins == trendingCoinsOf(trendingRaw)
        catList == categoriesOf(categoriesRaw)
        cats == IF IsArray(catList) THEN catList.a ELSE <<>>
    IN IF ~IsArray(trendingCoins) \/ ~IsArray(catList) THEN Threw
       ELSE IF \E i \in 1..Len(trendingCoins.a) : IsNullish(trendingCoins.a[i]) THEN Threw
       ELSE IF \E i \in 1..Len(cats) : IsNullish(cats[i]) THEN Threw
       ELSE LET ranks == [i \in 1..Len(trendingCoins.a) |-> rankOf(trendingCoins.a[i])]
                topTrendingRank == topTrendingRankOf(ranks)
                shown == Slice(trendingCoins.a, 0, TOP_TRENDING_SHOWN)
                kept == Pick(cats, KeepIdx({i \in 1..Len(cats) : hasSectorChange(cats[i])}))
                top == Slice(SortSectors(kept, <<>>), 0, TOP_SECTORS_SHOWN)
            IN [k |-> "obj",
                topTrendingCoins |-> Arr([i \in 1..Len(shown) |-> trendingLabel(shown[i])]),
                topPerformingSectors |-> Arr([i \in 1..Len(top) |-> sectorEntry(top[i])]),
                hypeVsMarketCapDivergence |->
                    Bool(JsGt(topTrendingRank, Num(TOP_TREND_RANK_LIMIT))),
                retailMoonshotPresence |->
                    Bool(moonshotOf(ranks))]

-----------------------------------------------------------------------------
(* lib/derived: the exchange quotes *)

EXCHANGE_PULSE_STRESS_THRESHOLD_USD == 50

\* The quote is unusable: the coerced price is the "unset" value 0.
quoteUnset(price) == IsZero(price)

\* Mutant: the threshold itself counts as volatile (>= for >).
isVolatileOf_inclusive(disparity) ==
    JsGt(disparity, Num(EXCHANGE_PULSE_STRESS_THRESHOLD_USD))
    \/ disparity = Num(EXCHANGE_PULSE_STRESS_THRESHOLD_USD)

\* Math.abs(cbPrice - krPrice) > EXCHANGE_PULSE_STRESS_THRESHOLD_USD
isVolatileOf(disparity) == JsGt(disparity, Num(EXCHANGE_PULSE_STRESS_THRESHOLD_USD))

\* Mutant: an empty price string is coerced like any other (Number('') is 0).
bnPriceOf_emptyCoerced(bnPriceRaw) ==
    IF ~IsNullish(bnPriceRaw) THEN ToNumber(bnPriceRaw) ELSE Null

\* bnPriceRaw != null && bnPriceRaw !== '' ? Number(bnPriceRaw) : null
bnPriceOf(bnPriceRaw) ==
    IF ~IsNullish(bnPriceRaw) /\ bnPriceRaw # Str(<<>>) THEN ToNumber(bnPriceRaw) ELSE Null

deriveExchangePulse(coinbaseRaw, krakenRaw, binanceRaw, geckoBtcPrice) ==
    LET cbPrice == ToNumber(Coalesce(OptGet(OptGet(coinbaseRaw, "data"), "amount"), Num(0)))
        krC == OptGet(OptGet(OptGet(krakenRaw, "result"), "XXBTZUSD"), "c")
        krFirst == IF IsNullish(krC) THEN Undef ELSE Index(krC, 0)
        krPrice == ToNumber(Coalesce(krFirst, Num(0)))
        bnPriceRaw == OptGet(binanceRaw, "price")
        bnPrice == bnPriceOf(bnPriceRaw)
    IN IF quoteUnset(cbPrice) \/ quoteUnset(krPrice) THEN Null
       ELSE [k |-> "obj",
             coinbasePrice |-> cbPrice,
             krakenPrice |-> krPrice,
             binancePrice |-> bnPrice,
             priceDisparity |-> JsAbs(JsSub(cbPrice, krPrice)),
             usExchangePremium |-> JsSub(cbPrice, geckoBtcPrice),
             isVolatile |-> Bool(isVolatileOf(JsAbs(JsSub(cbPrice, krPrice))))]

-----------------------------------------------------------------------------
(* lib/derived: computeDerived *)

MS_PER_SECOND == 1000

\* Math.floor(Date.now() / 1000)
unixSeconds(nowMs) == nowMs \div MS_PER_SECOND

\* Mutant: the reference price is the 50-sample average.
geckoBtcPriceOf_average(fromBitcoinChart) ==
    Coalesce(Get(fromBitcoinChart, "ma50"), Num(0))

\* fromBitcoinChart.currentPrice ?? 0
geckoBtcPriceOf(fromBitcoinChart) ==
    Coalesce(Get(fromBitcoinChart, "currentPrice"), Num(0))

computeDerived(globalRaw, topCoinsRaw, bitcoinChartRaw, trendingRaw, categoriesRaw, coinbaseSpotRaw, krakenTickerRaw, binancePriceRaw, nowMs) ==
    LET fromGlobal == deriveFromGlobal(globalRaw)
        fromBitcoinChart == deriveFromBitcoinChart(bitcoinChartRaw)
        geckoBtcPrice == geckoBtcPriceOf(fromBitcoinChart)
        fromExchangePulse ==
            deriveExchangePulse(Coalesce(coinbaseSpotRaw, Undef),
                                Coalesce(krakenTickerRaw, Undef),
                                Coalesce(binancePriceRaw, Undef), geckoBtcPrice)
        fromTopCoins == deriveFromTopCoins(topCoinsRaw)
        fromDiscovery == deriveDiscovery(trendingRaw, Coalesce(categoriesRaw, Undef))
    IN IF Threw \in {fromBitcoinChart, fromTopCoins, fromDiscovery} THEN Threw
       ELSE [k |-> "obj",
             fromGlobal |-> fromGlobal,
             fromBitcoinChart |-> fromBitcoinChart,
             fromTopCoins |-> fromTopCoins,
             fromDiscovery |-> fromDiscovery,
             fromExchangePulse |-> fromExchangePulse,
             computedAt |-> Num(unixSeconds(nowMs))]

-----------------------------------------------------------------------------
(* Persistence: JSON.stringify on write, JSON.parse on read *)

\* What a value reads back as: NaN and the infinities become null, a property
\* whose value is undefined is dropped, an undefined array element becomes null.
RECURSIVE JsonRoundTrip(_)
JsonRoundTrip(v) ==
    CASE v.k = "obj" ->
            [f \in {g \in DOMAIN v : IF g = "k" THEN TRUE ELSE v[g].k # "undef"} |->
                IF f = "k" THEN "obj" ELSE JsonRoundTrip(v[f])]
      [] v.k = "arr" ->
            Arr([i \in 1..Len(v.a) |->
                    IF v.a[i].k = "undef" THEN Null ELSE JsonRoundTrip(v.a[i])])
      [] v.k \in {"nan", "inf"} -> Null
      [] OTHER -> v

-----------------------------------------------------------------------------
(* api/chat: buildContext *)

\* typeof v === 'object' (arrays included; null is excluded by the truthiness test)
IsObjectType(v) == v.k \in {"obj", "arr"}
IsBooleanType(v) == v.k = "bool"

RECURSIVE FracDigits(_, _)
FracDigits(frac, digits) ==
    IF digits = 0 THEN "" ELSE FracDigits(frac \div 10, digits - 1) \o ToString(frac % 10)

\* Number.prototype.toFixed(digits): rounds to the given number of decimals.
ToFixed(v, digits) ==
    CASE v.k = "nan" -> "NaN"
      [] v.k = "inf" -> IF v.s < 0 THEN "-Infinity" ELSE "Infinity"
      [] OTHER ->
            LET p == 10 ^ digits
                scaled == (2 * Abs(v.n) * p + v.d) \div (2 * v.d)
            IN (IF v.n < 0 THEN "-" ELSE "") \o ToString(scaled \div p)
                \o (IF digits > 0 THEN "." \o FracDigits(scaled % p, digits) ELSE "")

HEADER_LINE == "Derived metrics (from latest fetch):"
FALLBACK_LINE == "No structured data available."
L_VOLUME_RATIO == "- Volume ratio (24h vol / market cap): "
L_BTC_DOMINANCE == "- BTC dominance: "
L_ETH_DOMINANCE == "- ETH dominance: "
L_MOMENTUM == "- Market momentum (24h cap change): "
L_MA50 == "- BTC 50-day MA: "
L_MA200 == "- BTC 200-day MA: "
L_TREND == "- BTC trend: "
L_BREADTH == "- Market breadth (% coins with positive 24h): "
L_TRENDING == "- Top trending coins: "
L_SECTORS == "- Top performing sectors (24h): "
L_HYPE == "- Hype vs market cap divergence (top trend rank > 100): "
L_MOONSHOT == "- Retail moonshot presence (any trending coin rank > 500): "
L_PULSE == "- Exchange pulse (BTC): Coinbase "
L_PULSE_KRAKEN == " USD, Kraken "
L_PULSE_BINANCE == ", Binance "
L_DISPARITY == "- Coinbase-Kraken price disparity: "
L_PREMIUM == "- US exchange premium vs aggregator (Coinbase - Gecko): "
L_STRESS == "- Exchange stress (disparity > 50 USD): "
L_TOTAL_CAP == "Total market cap (USD): "
L_TOTAL_VOLUME == "Total 24h volume (USD): "
L_TOP_COINS == "Top coins: "

\* cond ? [line] : []
LineIf(cond, line) == IF cond THEN <<line>> ELSE <<>>

\* `- label: ${Number(v).toFixed(digits)}suffix`, emitted when v != null
fixedLine(label, v, digits, suffix) ==
    LineIf(~IsNullish(v), <<label, ToFixed(ToNumber(v), digits)>> \o suffix)

\* arr.join(sep) over token sequences: null and undefined elements give ''.
RECURSIVE JoinTokens(_, _)
JoinTokens(items, sep) ==
    IF items = <<>> THEN <<>>
    ELSE IF Len(items) = 1 THEN Head(items)
    ELSE Head(items) \o <<sep>> \o JoinTokens(Tail(items), sep)

joinElement(v) == IF IsNullish(v) THEN <<>> ELSE JsString(v)

\* s.name / s.change24h.toFixed(2) throw on a null entry or a non-number change.
sectorEntryThrows(s) == IsNullish(s) \/ ~IsNumberType(Get(s, "change24h"))

sectorText(s) ==
    JsString(Get(s, "name")) \o <<" (", ToFixed(Get(s, "change24h"), 2), "%)">>

globalLines(fromGlobal) ==
    IF IsFalsy(fromGlobal) THEN <<>>
    ELSE fixedLine(L_VOLUME_RATIO, Get(fromGlobal, "volumeRatio"), 6, <<>>)
         \o fixedLine(L_BTC_DOMINANCE, Get(fromGlobal, "btcDominancePercent"), 2, <<"%">>)
         \o fixedLine(L_ETH_DOMINANCE, Get(fromGlobal, "ethDominancePercent"), 2, <<"%">>)
         \o fixedLine(L_MOMENTUM, Get(fromGlobal, "marketMomentum24hPercent"), 2, <<"%">>)

chartLines(fromChart) ==
    IF IsFalsy(fromChart) THEN <<>>
    ELSE fixedLine(L_MA50, Get(fromChart, "ma50"), 2, <<>>)
         \o fixedLine(L_MA200, Get(fromChart, "ma200"), 2, <<>>)
         \o LineIf(~IsNullish(Get(fromChart, "trend")),
                   <<L_TREND>> \o JsString(Get(fromChart, "trend")))

topLines(fromTop) ==
    IF IsFalsy(fromTop) THEN <<>>
    ELSE fixedLine(L_BREADTH, Get(fromTop, "marketBreadthAbove50Percent"), 1, <<"%">>)

hasEntries(v) == IsArray(v) /\ Len(v.a) > 0

discoveryThrows(fromDiscovery) ==
    /\ ~IsFalsy(fromDiscovery)
    /\ hasEntries(Get(fromDiscovery, "topPerformingSectors"))
    /\ \E i \in 1..Len(Get(fromDiscovery, "topPerformingSectors").a) :
            sectorEntryThrows(Get(fromDiscovery, "topPerformingSectors").a[i])

discoveryLines(fromDiscovery) ==
    IF IsFalsy(fromDiscovery) THEN <<>>
    ELSE LET coins == Get(fromDiscovery, "topTrendingCoins")
             sectors == Get(fromDiscovery, "topPerformingSectors")
             hype == Get(fromDiscovery, "hypeVsMarketCapDivergence")
             moon == Get(fromDiscovery, "retailMoonshotPresence")
         IN LineIf(hasEntries(coins),
                   <<L_TRENDING>> \o
                   JoinTokens([i \in 1..Len(coins.a) |-> joinElement(coins.a[i])], ", "))
            \o LineIf(hasEntries(sectors),
                   <<L_SECTORS>> \o
                   JoinTokens([i \in 1..Len(sectors.a) |-> sectorText(sectors.a[i])], ", "))
            \o LineIf(IsBooleanType(hype), <<L_HYPE>> \o JsString(hype))
            \o LineIf(IsBooleanType(moon), <<L_MOONSHOT>> \o JsString(moon))

\* The price printed for a quote: Number(price ?? 0).toFixed(2)
pulsePriceText(price) == ToFixed(ToNumber(Coalesce(price, Num(0))), 2)

pulseLines(fromExchangePulse) ==
    IF IsFalsy(fromExchangePulse) \/ ~IsObjectType(fromExchangePulse) THEN <<>>
    ELSE LET bn == Get(fromExchangePulse, "binancePrice")
             disparity == Get(fromExchangePulse, "priceDisparity")
             premium == Get(fromExchangePulse, "usExchangePremium")
             volatile == Get(fromExchangePulse, "isVolatile")
         IN << <<L_PULSE, pulsePriceText(Get(fromExchangePulse, "coinbasePrice")),
                 L_PULSE_KRAKEN, pulsePriceText(Get(fromExchangePulse, "krakenPrice")),
                 " USD">>
               \o (IF ~IsNullish(bn)
                   THEN <<L_PULSE_BINANCE, ToFixed(ToNumber(bn), 2), " USDT">> ELSE <<>>) >>
            \o LineIf(IsNumberType(disparity), <<L_DISPARITY, ToFixed(disparity, 2), " USD">>)
            \o LineIf(IsNumberType(premium), <<L_PREMIUM, ToFixed(premium, 2), " USD">>)
            \o LineIf(IsBooleanType(volatile), <<L_STRESS>> \o JsString(volatile))

derivedLines(d) ==
    IF IsFalsy(d) \/ ~IsObjectType(d) THEN <<>>
    ELSE << <<HEADER_LINE>> >>
         \o globalLines(Get(d, "fromGlobal"))
         \o chartLines(Get(d, "fromBitcoinChart"))
         \o topLines(Get(d, "fromTopCoins"))
         \o discoveryLines(Get(d, "fromDiscovery"))
         \o pulseLines(Get(d, "fromExchangePulse"))

rawGlobalLines(globalRaw) ==
    IF IsFalsy(globalRaw) \/ ~IsObjectType(globalRaw) THEN <<>>
    ELSE LET root == Coalesce(Get(globalRaw, "data"), globalRaw)
             cap == OptGet(Get(root, "total_market_cap"), "usd")
             vol == OptGet(Get(root, "total_volume"), "usd")
         IN LineIf(~IsNullish(cap), <<L_TOTAL_CAP>> \o JsString(cap))
            \o LineIf(~IsNullish(vol), <<L_TOTAL_VOLUME>> \o JsString(vol))

rawTopCoinsLines(topCoinsRaw) ==
    LineIf(hasEntries(topCoinsRaw),
           <<L_TOP_COINS, ToString(Len(topCoinsRaw.a)),
             " coins (e.g. by market cap). Each has id, symbol, current_price, market_cap, total_volume, price_change_percentage_24h, etc.">>)

\* parts.length > 0 ? parts.join('\n') : 'No structured data available.'
joinParts(parts) ==
    IF Len(parts) > 0 THEN Str(JoinTokens(parts, "\n")) ELSE Str(<<FALLBACK_LINE>>)

buildContext(d, globalRaw, topCoinsRaw) ==
    IF ~IsFalsy(d) /\ IsObjectType(d) /\ discoveryThrows(Get(d, "fromDiscovery"))
    THEN Threw
    ELSE joinParts(derivedLines(d) \o rawGlobalLines(globalRaw)
                   \o rawTopCoinsLines(topCoinsRaw))

-----------------------------------------------------------------------------
(* The payloads the model draws its inputs from *)

EmptyObj == [k |-> "obj"]

NoData ==
    [global |-> Undef, topCoins |-> Undef, bitcoinChart |-> Undef, trending |-> Undef,
     categories |-> Undef, coinbaseSpot |-> Undef, krakenTicker |-> Undef,
     binancePrice |-> Undef]

\* One [timestamp, price] sample.
Sample(t, p) == Arr(<<Num(t), Num(p)>>)

\* The i-th price of a series: a line of the given slope with one bump.
SeriesPrice(slope, bumpPos, i) == 1000 + slope * i + (IF i = bumpPos THEN 300 ELSE 0)

ChartOf(n, slope, bumpPos) ==
    [k |-> "obj", prices |-> Arr([i \in 1..n |-> Sample(i, SeriesPrice(slope, bumpPos, i))])]

ChartLens == {0, 1, 49, 50, 51, 199, 200} \cup {200 + e : e \in 1..MaxExtra}
BumpPositions(n) == {0} \cup ({n - 200, n - 199, n - 50, n - 49, n} \cap (1..n))

ChartInputs ==
    {Undef, Null, EmptyObj, [k |-> "obj", prices |-> Null]}
    \cup {ChartOf(n, slope, b) : <<n, slope, b>> \in
            {t \in ChartLens \X {-1, 0, 1} \X (0..(200 + MaxExtra)) : t[3] \in BumpPositions(t[1])}}

UsdBoxes(values) == {Undef, EmptyObj} \cup {[k |-> "obj", usd |-> v] : v \in values}

CapValues == {Null, Num(0), Num(-2000), Num(1000), Num(2000), Str(<<"a">>), Str(<<"1", "0">>)}
VolValues == {Null, Num(0), Num(50), Num(-50), Num(3000), Str(<<"a">>)}

GlobalRoots ==
    {[k |-> "obj", total_market_cap |-> cap, total_volume |-> vol,
      market_cap_percentage |-> rest.pct,
      market_cap_change_percentage_24h_usd |-> rest.momentum,
      updated_at |-> rest.updated] :
        cap \in UsdBoxes(CapValues), vol \in UsdBoxes(VolValues),
        rest \in {[pct |-> Undef, momentum |-> Undef, updated |-> Undef],
                  [pct |-> [k |-> "obj", btc |-> Num(52), eth |-> Num(18)],
                   momentum |-> Rat(-1, 2), updated |-> Num(123)],
                  [pct |-> [k |-> "obj", btc |-> Str(<<"a">>), eth |-> Null],
                   momentum |-> Str(<<"5">>), updated |-> EmptyObj]}}

\* The snapshot r under the envelope field of a payload that also carries
\* fields at top level.
Enveloped(r, outer) ==
    [f \in DOMAIN outer \cup {"data"} |-> IF f = "data" THEN r ELSE outer[f]]

OuterRoot ==
    [k |-> "obj", total_market_cap |-> [k |-> "obj", usd |-> Num(4000)],
     total_volume |-> [k |-> "obj", usd |-> Num(7)],
     market_cap_percentage |-> [k |-> "obj", btc |-> Num(40), eth |-> Num(9)],
     market_cap_change_percentage_24h_usd |-> Num(3), updated_at |-> Num(99)]

GlobalInputs ==
    {Undef, Null} \cup GlobalRoots \cup {[k |-> "obj", data |-> r] : r \in GlobalRoots}
    \cup {Enveloped(r, OuterRoot) : r \in GlobalRoots}

RECURSIVE StringsUpTo(_, _)
StringsUpTo(chars, n) ==
    IF n = 0 THEN {<<>>}
    ELSE LET shorter == StringsUpTo(chars, n - 1)
         IN shorter \cup {Append(s, c) : s \in shorter, c \in chars}

QuoteChars == {"0", "5", "a"}
QuoteValues ==
    {Undef, Null, Num(0), Num(106)} \cup {Str(s) : s \in StringsUpTo(QuoteChars, MaxStrLen)}

CoinbaseInputs ==
    {Undef, Null, EmptyObj} \cup {[k |-> "obj", data |-> [k |-> "obj", amount |-> a]] : a \in QuoteValues}

KrakenBox(c) == [k |-> "obj", result |-> [k |-> "obj", XXBTZUSD |-> [k |-> "obj", c |-> c]]]

KrakenInputs ==
    {Undef, Null, EmptyObj, [k |-> "obj", result |-> EmptyObj], KrakenBox(Undef), KrakenBox(Arr(<<>>))}
    \cup {KrakenBox(Arr(<<a, Str(<<"9">>)>>)) :
            a \in {Null, Num(0), Num(5), Str(<<>>), Str(<<"0">>), Str(<<"5">>),
                   Str(<<"5", "0">>), Str(<<"a">>)}}

BinanceInputs ==
    {Undef, Null, EmptyObj}
    \cup {[k |-> "obj", symbol |-> Str(<<"BTCUSDT">>), price |-> a] :
            a \in {Str(<<>>), Str(<<"5", "2">>), Str(<<"a">>)}}

Coin(change) == [k |-> "obj", id |-> Str(<<"coin">>), price_change_percentage_24h |-> change]

Trending(rank) ==
    [k |-> "obj", item |-> [k |-> "obj", name |-> Str(<<"Alpha">>), symbol |-> Str(<<"A">>),
                            market_cap_rank |-> rank]]
Category(name, change) == [k |-> "obj", name |-> name, market_cap_change_24h |-> change]

-----------------------------------------------------------------------------
(* The state machine *)

nowMs == ticks * TickMs

\* computeDerived applied to the payloads at hand, at the current clock reading.
ComputeDerived ==
    /\ derived' = computeDerived(data.global, data.topCoins, data.bitcoinChart,
                                 data.trending, data.categories, data.coinbaseSpot,
                                 data.krakenTicker, data.binancePrice, nowMs)
    /\ UNCHANGED <<data, ticks, stored, chatDerived, context>>
    /\ UNCHANGED svcVars

\* The derived object is written as JSON under key `derived`; a reader parses it.
Persist ==
    /\ IsObject(derived)
    /\ stored' = JsonRoundTrip(derived)
    /\ UNCHANGED <<data, ticks, derived, chatDerived, context>>
    /\ UNCHANGED svcVars

\* blobRead: the parsed blob, or null when there is none.
blobRead(blob) == IF blob = Undef THEN Null ELSE blob

\* The chat route answers "No data yet" unless some blob holds data.
hasData(d, globalRaw, topCoinsRaw) ==
    ~IsNullish(d) \/ ~IsNullish(globalRaw) \/ hasEntries(topCoinsRaw)

\* The chat route reads the blobs derived, global and topCoins and renders them.
BuildContext ==
    /\ hasData(blobRead(stored), blobRead(data.global), blobRead(data.topCoins))
    /\ chatDerived' = blobRead(stored)
    /\ context' = buildContext(blobRead(stored), blobRead(data.global),
                               blobRead(data.topCoins))
    /\ UNCHANGED <<data, ticks, derived, stored>>
    /\ UNCHANGED svcVars

Tick ==
    /\ ticks < MaxTicks
    /\ ticks' = ticks + 1
    /\ UNCHANGED <<data, derived, stored, chatDerived, context>>
    /\ UNCHANGED svcVars

\* No request has been served, nothing is stored, nobody has logged in.
NoRequest == [route |-> "none", status |-> -1]
NoBlobs == [global |-> Null, topCoins |-> Null, bitcoinChart |-> Null, derived |-> Null]
Quiet ==
    /\ secret = "a" /\ now = 0 /\ cookie = Null
    /\ req = NoRequest /\ log = <<>> /\ blobs = NoBlobs

Fresh ==
    /\ ticks = 0 /\ derived = Undef /\ chatDerived = Undef /\ context = Undef
    /\ Quiet

Pipeline == ComputeDerived \/ Persist \/ BuildContext

GoodGlobal ==
    [k |-> "obj",
     data |-> [k |-> "obj", total_market_cap |-> [k |-> "obj", usd |-> Num(2000)],
               total_volume |-> [k |-> "obj", usd |-> Num(50)],
               market_cap_percentage |-> [k |-> "obj", btc |-> Num(52), eth |-> Num(18)],
               market_cap_change_percentage_24h_usd |-> Rat(3, 2),
               updated_at |-> Num(123)]]
GoodTopCoins == Arr(<<Coin(Num(2)), Coin(Num(-1)), Coin(Undef)>>)
GoodChart == ChartOf(200, 1, 0)
GoodTrending == [k |-> "obj", coins |-> Arr(<<Trending(Num(150)), Trending(Num(700))>>)]
GoodCategories ==
    Arr(<<Category(Str(<<"DeFi">>), Num(1)), Category(Str(<<"AI">>), Num(5)),
          Category(Undef, Null)>>)
GoodCoinbase == [k |-> "obj", data |-> [k |-> "obj", amount |-> Str(<<"5", "5">>)]]
GoodKraken == KrakenBox(Arr(<<Str(<<"5">>)>>))
GoodBinance == [k |-> "obj", symbol |-> Str(<<"BTCUSDT">>), price |-> Str(<<"5", "2">>)]

\* Every payload independently null or well-shaped; nothing computed or stored yet.
Init ==
    /\ Fresh /\ stored = Undef
    /\ data \in [global : {Null, GoodGlobal}, topCoins : {Null, GoodTopCoins},
                 bitcoinChart : {Null, GoodChart}, trending : {Null, GoodTrending},
                 categories : {Null, GoodCategories}, coinbaseSpot : {Null, GoodCoinbase},
                 krakenTicker : {Null, GoodKraken}, binancePrice : {Null, GoodBinance}]

Next == Tick \/ ComputeDerived \/ Persist \/ BuildContext

Spec == Init /\ [][Next]_vars

\* Every payload independently undefined, null or well-shaped; computeDerived alone.
InitInputs ==
    /\ Fresh /\ stored = Undef
    /\ data \in [global : {Undef, Null, GoodGlobal}, topCoins : {Undef, Null, GoodTopCoins},
                 bitcoinChart : {Undef, Null, GoodChart},
                 trending : {Undef, Null, GoodTrending},
                 categories : {Undef, Null, GoodCategories},
                 coinbaseSpot : {Undef, Null, GoodCoinbase},
                 krakenTicker : {Undef, Null, GoodKraken},
                 binancePrice : {Undef, Null, GoodBinance}]
SpecInputs == InitInputs /\ [][ComputeDerived]_vars

\* The price series alone varies.
InitChart ==
    /\ Fresh /\ stored = Undef
    /\ \E c \in ChartInputs : data = [NoData EXCEPT !.bitcoinChart = c]
SpecChart == InitChart /\ [][Pipeline]_vars

\* The global snapshot alone varies.
InitGlobal ==
    /\ Fresh /\ stored = Undef
    /\ \E g \in GlobalInputs : data = [NoData EXCEPT !.global = g]
SpecGlobal == InitGlobal /\ [][Pipeline]_vars

\* The three exchange quotes and the reference price vary.
InitPulse ==
    /\ Fresh /\ stored = Undef
    /\ \E cb \in CoinbaseInputs, kr \in KrakenInputs, bn \in BinanceInputs,
          chart \in {Undef, ChartOf(1, 0, 0)} :
            data = [NoData EXCEPT !.coinbaseSpot = cb, !.krakenTicker = kr,
                                  !.binancePrice = bn, !.bitcoinChart = chart]
SpecPulse == InitPulse /\ [][Pipeline]_vars

\* Ranked lists: positions 1..10 carry one change, later positions another, and
\* the marked positions a third.
TopListOf(n, baseTop, baseNext, marks, special) ==
    Arr([i \in 1..n |->
            Coin(IF i \in marks THEN special
                 ELSE IF i <= TOP10_END THEN baseTop ELSE baseNext)])

TopLens == {0, 1, 2, 9, 10, 11, 99, 100} \cup {100 + e : e \in 1..MaxExtra}
MarkSets(n) ==
    {{}, {1} \cap (1..n), {10} \cap (1..n), {11} \cap (1..n), {100} \cap (1..n),
     {n} \cap (101..n), {i \in 1..n : i % 3 = 0}}
BaseChanges == {Undef, Num(0), Num(2), Num(-3)}
SpecialChanges == {Null, Num(0), Num(8), Str(<<"5">>)}

TopCoinsInputs ==
    {Undef, Null}
    \cup {TopListOf(n, bt, bn, marks, sp) :
            <<n, bt, bn, marks, sp>> \in
                {t \in TopLens \X BaseChanges \X BaseChanges
                        \X (UNION {MarkSets(n) : n \in TopLens}) \X SpecialChanges :
                    t[4] \in MarkSets(t[1])}}

\* The ranked list alone varies.
InitTop ==
    /\ Fresh /\ stored = Undef
    /\ \E t \in TopCoinsInputs : data = [NoData EXCEPT !.topCoins = t]
SpecTop == InitTop /\ [][Pipeline]_vars

\* Trending lists: every entry carries one rank, but for one position.
TrendListOf(n, base, pos, special) ==
    [k |-> "obj",
     coins |-> Arr([i \in 1..n |-> Trending(IF i = pos THEN special ELSE base)])]

TrendingInputs ==
    {Undef, Null, EmptyObj, [k |-> "obj", coins |-> Null],
     [k |-> "obj", coins |-> Arr(<<EmptyObj, Trending(Num(501))>>)],
     [k |-> "obj", coins |-> Arr(<<[k |-> "obj", item |-> Null], Trending(Num(101))>>)]}
    \cup {TrendListOf(n, base, pos, special) :
            <<n, base, pos, special>> \in
                {t \in (0..MaxTrending) \X {Undef, Num(50), Num(101)} \X (0..MaxTrending)
                        \X {Null, Num(100), Num(500), Num(501)} : t[3] <= t[1]}}

\* Category lists: each entry named after its position.
CategoryChanges == {Undef, Null, Num(1), Num(5), Num(-2), Str(<<"5">>)}
CategoryListOf(changes) ==
    Arr([i \in 1..Len(changes) |-> Category(Str(<<"c", ToString(i)>>), changes[i])])
CategoriesInputs ==
    {Undef, Null}
    \cup {CategoryListOf(changes) :
            changes \in UNION {[1..n -> CategoryChanges] : n \in 0..MaxCategories}}

\* The trending list or the category list varies.
InitDiscovery ==
    /\ Fresh /\ stored = Undef
    /\ \/ \E t \in TrendingInputs, c \in {Undef, Null, GoodCategories} :
            data = [NoData EXCEPT !.trending = t, !.categories = c]
       \/ \E t \in {Undef, Null, GoodTrending}, c \in CategoriesInputs :
            data = [NoData EXCEPT !.trending = t, !.categories = c]
SpecDiscovery == InitDiscovery /\ [][Pipeline]_vars

\* Payloads of the wrong shape: lists holding null or non-object elements,
\* fields of the wrong type.
SmallChart == ChartOf(2, 1, 0)
NullSampleChart ==
    [k |-> "obj",
     prices |-> Arr([i \in 1..MA_SHORT_DAYS |-> IF i = 1 THEN Null ELSE Sample(i, 1000 + i)])]
BadTopCoins == {Arr(<<Null>>), Arr(<<Num(5), Str(<<"x">>)>>), Str(<<"x">>)}
BadTrending ==
    {[k |-> "obj", coins |-> Arr(<<Null>>)],
     [k |-> "obj", coins |-> Str(<<"x">>)],
     [k |-> "obj", coins |-> Arr(<<Num(5), [k |-> "obj", item |-> Null]>>)]}
BadCategories == {Arr(<<Null>>), Arr(<<Num(5)>>), Str(<<"x">>)}
BadChart ==
    {[k |-> "obj", prices |-> Arr(<<Null>>)],
     [k |-> "obj", prices |-> Arr(<<Num(5)>>)],
     [k |-> "obj", prices |-> Str(<<"a", "b">>)],
     NullSampleChart}
BadGlobal ==
    {Str(<<"x">>), [k |-> "obj", data |-> Num(5)],
     [k |-> "obj", total_market_cap |-> Num(5), total_volume |-> Str(<<"x">>)]}
BadCoinbase ==
    {[k |-> "obj", data |-> Str(<<"x">>)], [k |-> "obj", data |-> [k |-> "obj", amount |-> EmptyObj]]}
BadKraken == {[k |-> "obj", result |-> Num(5)], KrakenBox(Str(<<"5">>))}
BadBinance == {[k |-> "obj", price |-> EmptyObj]}

SourceKeys == DOMAIN NoData

Good(key) ==
    CASE key = "global" -> GoodGlobal
      [] key = "topCoins" -> GoodTopCoins
      [] key = "bitcoinChart" -> SmallChart
      [] key = "trending" -> GoodTrending
      [] key = "categories" -> GoodCategories
      [] key = "coinbaseSpot" -> GoodCoinbase
      [] key = "krakenTicker" -> GoodKraken
      [] key = "binancePrice" -> GoodBinance

Bad(key) ==
    CASE key = "global" -> BadGlobal
      [] key = "topCoins" -> BadTopCoins
      [] key = "bitcoinChart" -> BadChart
      [] key = "trending" -> BadTrending
      [] key = "categories" -> BadCategories
      [] key = "coinbaseSpot" -> BadCoinbase
      [] key = "krakenTicker" -> BadKraken
      [] key = "binancePrice" -> BadBinance

\* One payload malformed, every other one independently null or well-shaped.
InitMalformed ==
    /\ Fresh /\ stored = Undef
    /\ \E base \in [SourceKeys -> BOOLEAN], key \in SourceKeys :
          \E bad \in Bad(key) :
            data = [x \in SourceKeys |->
                        IF x = key THEN bad ELSE IF base[x] THEN Good(x) ELSE Null]
SpecMalformed == InitMalformed /\ [][ComputeDerived]_vars

-----------------------------------------------------------------------------
(* The password gate (api/auth): a signed session cookie *)

SESSION_MAX_AGE_MS == 7 * 24 * 60 * 60 * 1000   \* 7 days

\* getSecret: APP_PASSWORD, or '' when it is not set.
getSecret == secret

\* createHmac('sha256', key).update(msg).digest(): a keyed digest, equal for
\* two calls only when key and message are equal.
Hmac(key, msg) == [key |-> key, msg |-> msg]

\* JSON.stringify of the payload, base64url-encoded; the verifier decodes and
\* parses it back. Text that is not JSON has json = FALSE.
Payload(t, exp) == [json |-> TRUE, t |-> t, exp |-> exp]
NotJson == [json |-> FALSE, t |-> Undef, exp |-> Undef]

\* A cookie value: the parts its text has between dots.
Token(parts) == [k |-> "str", parts |-> parts]

signPayload(payload) == Token(<<payload, Hmac(getSecret, payload)>>)

\* Mutant: a token is accepted up to and including its expiry instant.
verifyToken_inclusive(token) ==
    IF getSecret = "" THEN FALSE
    ELSE IF Len(token.parts) # 2 THEN FALSE
    ELSE LET payloadB64 == token.parts[1]
             sig == token.parts[2]
         IN IF sig # Hmac(getSecret, payloadB64) THEN FALSE
            ELSE IF ~payloadB64.json THEN FALSE
            ELSE /\ IsNumberType(payloadB64.exp)
                 /\ ~JsLt(payloadB64.exp, Num(now))

verifyToken(token) ==
    IF getSecret = "" THEN FALSE
    ELSE IF Len(token.parts) # 2 THEN FALSE
    ELSE LET payloadB64 == token.parts[1]
             sig == token.parts[2]
         IN IF sig # Hmac(getSecret, payloadB64) THEN FALSE
            ELSE IF ~payloadB64.json THEN FALSE
            ELSE /\ IsNumberType(payloadB64.exp)
                 /\ JsGt(payloadB64.exp, Num(now))

\* Mutant: any session cookie passes.
isAuthenticated_anyCookie(token) == token # Null

\* isAuthenticated, on the session cookie of the request (Null when absent).
isAuthenticated(token) == token # Null /\ verifyToken(token)

\* The passwords a login may carry ("" for a missing, non-string or empty one)
\* and the values APP_PASSWORD takes.
Secrets == {"", "a", "b"}
Passwords == {"", "a", "b", "x"}
LoginBodies == {[json |-> FALSE, password |-> ""]}
               \cup {[json |-> TRUE, password |-> pw] : pw \in Passwords}

\* POST /api/auth: the status and the token set as cookie (Null when none).
loginAnswer(body) ==
    IF getSecret = "" THEN [status |-> 500, token |-> Null]
    ELSE IF ~body.json THEN [status |-> 400, token |-> Null]
    ELSE IF body.password = "" THEN [status |-> 400, token |-> Null]
    ELSE IF body.password # getSecret THEN [status |-> 401, token |-> Null]
    ELSE [status |-> 200,
          token |-> signPayload(Payload(Num(now), Num(now + SESSION_MAX_AGE_MS)))]

Login ==
    /\ \E body \in LoginBodies :
        LET answer == loginAnswer(body)
        IN /\ req' = [route |-> "login", password |-> body.password, secret |-> secret,
                      at |-> now, status |-> answer.status, token |-> answer.token]
           /\ cookie' = IF answer.token # Null THEN answer.token ELSE cookie
    /\ UNCHANGED <<secret, now, log, blobs>>
    /\ UNCHANGED libVars

\* POST or GET /api/auth/logout: the cookie is cleared.
Logout ==
    /\ cookie # Null
    /\ cookie' = Null
    /\ req' = [route |-> "logout", status |-> 200]
    /\ UNCHANGED <<secret, now, log, blobs>>
    /\ UNCHANGED libVars

\* What a client may send as session cookie: the cookie it holds, that cookie
\* altered, or one it made up.
Altered(c) ==
    IF c = Null THEN {}
    ELSE {Token(<<c.parts[1]>>),
          Token(<<Payload(c.parts[1].t, Num(3 * SESSION_MAX_AGE_MS)), c.parts[2]>>),
          Token(<<c.parts[1], c.parts[2], c.parts[2]>>)}
MadeUp ==
    LET forever == Payload(Num(0), Num(3 * SESSION_MAX_AGE_MS))
        textual == Payload(Num(0), Str(<<"9">>))
    IN {Token(<<p, Hmac(key, p)>>) : p \in {forever, textual, NotJson},
                                      key \in {"", "a", "x"}}
Presentable == {Null, cookie} \cup Altered(cookie) \cup MadeUp

\* GET /api/auth: is the session of this request valid?
sessionStatus(token) ==
    IF getSecret = "" THEN 500
    ELSE IF isAuthenticated(token) THEN 200 ELSE 401

Session ==
    /\ \E c \in Presentable :
        req' = [route |-> "session", cookie |-> c, secret |-> secret, at |-> now,
                status |-> sessionStatus(c)]
    /\ UNCHANGED <<secret, now, cookie, log, blobs>>
    /\ UNCHANGED libVars

\* Time passes: the instants around a login and around its seventh day.
ClockReadings ==
    {0, 1, SESSION_MAX_AGE_MS - 1, SESSION_MAX_AGE_MS, SESSION_MAX_AGE_MS + 1,
     SESSION_MAX_AGE_MS + 2}
Advance ==
    /\ \E t \in ClockReadings : t > now /\ now' = t
    /\ UNCHANGED <<secret, cookie, req, log, blobs>>
    /\ UNCHANGED libVars

\* The operator sets, changes or removes APP_PASSWORD.
Configure ==
    /\ \E s \in Secrets : s # secret /\ secret' = s
    /\ UNCHANGED <<now, cookie, req, log, blobs>>
    /\ UNCHANGED libVars

InitAuth == Fresh /\ stored = Undef /\ data = NoData
NextAuth == Login \/ Logout \/ Session \/ Advance \/ Configure
SpecAuth == InitAuth /\ [][NextAuth]_vars

-----------------------------------------------------------------------------
(* The routes behind the gate: api/fetch, api/chat and api/data.            *)
(* Requests are served one at a time and the blob store is available.       *)

PERSIST_FETCHED_DATA == TRUE
INCLUDE_DATA_IN_RESPONSE == TRUE
DEFAULT_PAUSE_MS_BETWEEN_SAME_VENDOR == 15000
COINGECKO == Str(<<"api.coingecko.com">>)

\* The ordered list of endpoints, each with the hostname of its url.
FETCH_SOURCES ==
    <<[key |-> "global", hostname |-> COINGECKO],
      [key |-> "topCoins", hostname |-> COINGECKO],
      [key |-> "bitcoinChart", hostname |-> COINGECKO]>>
getHostnameFromUrl(source) == source.hostname

\* getPauseMs: PAUSE_MS_BETWEEN_SAME_VENDOR of the environment if set.
getPauseMs(env) ==
    IF env # Undef THEN ToNumber(env) ELSE Num(DEFAULT_PAUSE_MS_BETWEEN_SAME_VENDOR)

\* Mutant: the pause is taken whatever its configured length.
pauseBefore_anyLength(i, lastHostname, hostname, pauseMs) ==
    i > 0 /\ lastHostname # Null /\ hostname = lastHostname

\* i > 0 && lastHostname !== null && hostname === lastHostname && pauseMs > 0
pauseBefore(i, lastHostname, hostname, pauseMs) ==
    i > 0 /\ lastHostname # Null /\ hostname = lastHostname /\ JsGt(pauseMs, Num(0))

\* Mutant: derivation runs as soon as the global snapshot is there.
snapshotComplete_globalOnly(fetched) == ~IsNullish(fetched.global)

\* data.global != null && data.topCoins != null && data.bitcoinChart != null
snapshotComplete(fetched) ==
    /\ ~IsNullish(fetched.global)
    /\ ~IsNullish(fetched.topCoins)
    /\ ~IsNullish(fetched.bitcoinChart)

\* computeDerived as the fetch route carries it: three inputs, three
\* sub-records and the time stamp.
computeDerivedInlined(globalRaw, topCoinsRaw, bitcoinChartRaw, dateNow) ==
    LET root == Coalesce(OptGet(globalRaw, "data"), globalRaw)
        cap == Coalesce(OptGet(OptGet(root, "total_market_cap"), "usd"), Null)
        vol == Coalesce(OptGet(OptGet(root, "total_volume"), "usd"), Null)
        btc == Coalesce(OptGet(OptGet(root, "market_cap_percentage"), "btc"), Null)
        eth == Coalesce(OptGet(OptGet(root, "market_cap_percentage"), "eth"), Null)
        momentum == Coalesce(OptGet(root, "market_cap_change_percentage_24h_usd"), Null)
        updatedAt == Coalesce(OptGet(root, "updated_at"), Null)
        volumeRatio == IF ~IsNullish(cap) /\ ~IsNullish(vol) /\ JsGt(cap, Num(0))
                       THEN JsDiv(vol, cap) ELSE Null
        prices == OptGet(bitcoinChartRaw, "prices")
        long == IsArray(prices) /\ Len(prices.a) >= MA_LONG_DAYS
        ma50 == IF long THEN movingAverage(prices, MA_SHORT_DAYS) ELSE Null
        ma200 == IF long THEN movingAverage(prices, MA_LONG_DAYS) ELSE Null
        last == IF long THEN Index(prices, Len(prices.a) - 1) ELSE Null
        currentPrice == IF ~IsNullish(last) THEN Index(last, 1) ELSE Null
        trend == IF long THEN trendOf(ma50, ma200) ELSE Null
    IN [k |-> "obj",
        fromGlobal |-> [k |-> "obj", volumeRatio |-> volumeRatio,
                        btcDominancePercent |-> btc, ethDominancePercent |-> eth,
                        marketMomentum24hPercent |-> momentum, updatedAt |-> updatedAt],
        fromBitcoinChart |-> [k |-> "obj", ma50 |-> ma50, ma200 |-> ma200,
                              currentPrice |-> currentPrice, trend |-> trend],
        fromTopCoins |-> deriveFromTopCoins(topCoinsRaw),
        computedAt |-> Num(unixSeconds(dateNow))]

\* What a source may answer: a failure without or with a body, success with
\* an unreadable body, success with one of two snapshots.
LaterGlobal ==
    [k |-> "obj",
     data |-> [k |-> "obj", total_market_cap |-> [k |-> "obj", usd |-> Num(4000)],
               total_volume |-> [k |-> "obj", usd |-> Num(40)],
               market_cap_percentage |-> [k |-> "obj", btc |-> Num(49), eth |-> Num(20)],
               market_cap_change_percentage_24h_usd |-> Num(-2),
               updated_at |-> Num(456)]]
Snapshots(key) ==
    CASE key = "global" -> {GoodGlobal, LaterGlobal}
      [] key = "topCoins" -> {GoodTopCoins}
      [] key = "bitcoinChart" -> {GoodChart}
ErrorBody == [k |-> "obj", error |-> Str(<<"rate limited">>)]
Responses(key) ==
    {[isOk |-> FALSE, data |-> Null], [isOk |-> FALSE, data |-> ErrorBody],
     [isOk |-> TRUE, data |-> Null]}
    \cup {[isOk |-> TRUE, data |-> v] : v \in Snapshots(key)}

\* The cookies a request to these routes carries: none, the token of a login
\* now, one that has just expired, one signed under another password.
LiveToken == signPayload(Payload(Num(now), Num(now + SESSION_MAX_AGE_MS)))
ExpiredToken == signPayload(Payload(Num(now - SESSION_MAX_AGE_MS), Num(now)))
ForgedToken ==
    LET p == Payload(Num(now), Num(now + SESSION_MAX_AGE_MS))
    IN Token(<<p, Hmac("x", p)>>)
Cookies == {Null, LiveToken, ExpiredToken, ForgedToken}
\* The method a route is written for, and another one.
Methods(route) ==
    CASE route = "data.get" -> {"GET", "POST"}
      [] route = "data.delete" -> {"DELETE", "GET"}
      [] OTHER -> {"POST", "GET"}
PauseSettings == {Undef, Str(<<"0">>), Str(<<"a">>)}

\* No request is being served.
Idle == req.status # 0

Answered(route, method, c, status) ==
    [route |-> route, method |-> method, cookie |-> c, status |-> status]

\* POST /api/fetch up to the loop over the sources.
FetchStart ==
    /\ Idle
    /\ \E method \in Methods("fetch"), c \in Cookies, hasBlobToken \in BOOLEAN,
          pauseSetting \in PauseSettings :
        req' = IF method # "POST" THEN Answered("fetch", method, c, 405)
               ELSE IF ~isAuthenticated(c) THEN Answered("fetch", method, c, 401)
               ELSE [route |-> "fetch", method |-> method, cookie |-> c, status |-> 0,
                     pc |-> "request", i |-> 0, lastHostname |-> Null,
                     hasBlobToken |-> hasBlobToken, pauseSetting |-> pauseSetting,
                     results |-> <<>>,
                     fetched |-> [global |-> Undef, topCoins |-> Undef,
                                  bitcoinChart |-> Undef]]
    /\ log' = <<>>
    /\ UNCHANGED <<secret, now, cookie, blobs>>
    /\ UNCHANGED libVars

\* One turn of the loop up to the await of the response: the pause if one is
\* due, then the request.
FetchRequest ==
    /\ req.route = "fetch" /\ req.status = 0 /\ req.pc = "request"
    /\ LET source == FETCH_SOURCES[req.i + 1]
           hostname == getHostnameFromUrl(source)
           pauseMs == getPauseMs(req.pauseSetting)
           pause == pauseBefore(req.i, req.lastHostname, hostname, pauseMs)
       IN /\ log' = log \o (IF pause THEN <<[e |-> "sleep", key |-> source.key]>>
                            ELSE <<>>)
                        \o <<[e |-> "request", key |-> source.key]>>
          /\ req' = [req EXCEPT !.lastHostname = hostname, !.pc = "response"]
    /\ UNCHANGED <<secret, now, cookie, blobs>>
    /\ UNCHANGED libVars

\* The rest of the turn: the response is recorded, kept for the derivation
\* and written as the raw blob of its key.
FetchResponse ==
    /\ req.route = "fetch" /\ req.status = 0 /\ req.pc = "response"
    /\ LET source == FETCH_SOURCES[req.i + 1]
       IN \E response \in Responses(source.key) :
            LET usable == response.isOk /\ response.data # Null
                kept == usable /\ INCLUDE_DATA_IN_RESPONSE
                written == PERSIST_FETCHED_DATA /\ req.hasBlobToken /\ usable
            IN /\ req' = [req EXCEPT
                            !.results = Append(@, [key |-> source.key,
                                                   isOk |-> response.isOk]),
                            !.fetched[source.key] = IF kept THEN response.data ELSE @,
                            !.i = @ + 1,
                            !.pc = IF req.i + 1 < Len(FETCH_SOURCES)
                                   THEN "request" ELSE "derive"]
               /\ blobs' = IF written
                           THEN [blobs EXCEPT ![source.key] = JsonRoundTrip(response.data)]
                           ELSE blobs
               /\ log' = log \o <<[e |-> "response", key |-> source.key,
                                   isOk |-> response.isOk,
                                   hasData |-> response.data # Null]>>
                             \o (IF written THEN <<[e |-> "put", key |-> source.key]>>
                                 ELSE <<>>)
    /\ UNCHANGED <<secret, now, cookie>>
    /\ UNCHANGED libVars

\* After the loop: derivation if the snapshot is complete, then the answer.
FetchFinish ==
    /\ req.route = "fetch" /\ req.status = 0 /\ req.pc = "derive"
    /\ LET derives == PERSIST_FETCHED_DATA /\ snapshotComplete(req.fetched)
           written == derives /\ req.hasBlobToken
           allOk == \A j \in 1..Len(req.results) : req.results[j].isOk
       IN /\ blobs' = IF written
                      THEN [blobs EXCEPT !.derived =
                              JsonRoundTrip(computeDerivedInlined(req.fetched.global,
                                  req.fetched.topCoins, req.fetched.bitcoinChart, now))]
                      ELSE blobs
          /\ log' = log \o (IF written THEN <<[e |-> "put", key |-> "derived"]>>
                            ELSE <<>>)
          /\ req' = Answered("fetch", req.method, req.cookie,
                              IF allOk THEN 200 ELSE 500)
    /\ UNCHANGED <<secret, now, cookie>>
    /\ UNCHANGED libVars

\* blobRead of the chat and data routes: one look into the store.
readBlob(key) == IF key \in DOMAIN blobs THEN blobs[key] ELSE Null
Reads(keys) == [j \in 1..Len(keys) |-> [e |-> "read", key |-> keys[j]]]
CHAT_KEYS == <<"derived", "global", "topCoins">>
DATA_KEYS ==
    <<"global", "topCoins", "bitcoinChart", "trending", "categories",
      "coinbaseSpot", "krakenTicker", "binancePrice", "derived">>
\* What a chat request meets: no OPENAI_API_KEY, a body that is not JSON, an
\* empty message, or a question the model answers or fails to answer.
ChatInputs ==
    {[hasKey |-> FALSE, json |-> TRUE, message |-> "hi", llmOk |-> TRUE],
     [hasKey |-> TRUE, json |-> FALSE, message |-> "", llmOk |-> TRUE],
     [hasKey |-> TRUE, json |-> TRUE, message |-> "", llmOk |-> TRUE],
     [hasKey |-> TRUE, json |-> TRUE, message |-> "hi", llmOk |-> TRUE],
     [hasKey |-> TRUE, json |-> TRUE, message |-> "hi", llmOk |-> FALSE]}

\* POST /api/chat.
ChatPost ==
    /\ Idle
    /\ \E method \in Methods("chat"), c \in Cookies, inp \in ChatInputs :
        LET d == readBlob("derived")
            globalRaw == readBlob("global")
            topCoinsRaw == readBlob("topCoins")
            early == IF method # "POST" THEN 405
                     ELSE IF ~isAuthenticated(c) THEN 401
                     ELSE IF ~inp.hasKey THEN 500
                     ELSE IF ~inp.json \/ inp.message = "" THEN 400
                     ELSE 0
            asks == early = 0 /\ hasData(d, globalRaw, topCoinsRaw)
        IN /\ req' = Answered("chat", method, c,
                              IF early # 0 THEN early
                              ELSE IF asks /\ ~inp.llmOk THEN 500 ELSE 200)
           /\ log' = IF early # 0 THEN <<>>
                     ELSE Reads(CHAT_KEYS)
                          \o (IF asks
                              THEN <<[e |-> "generateText",
                                      system |-> buildContext(d, globalRaw, topCoinsRaw)]>>
                              ELSE <<>>)
    /\ UNCHANGED <<secret, now, cookie, blobs>>
    /\ UNCHANGED libVars

\* GET /api/data.
DataGet ==
    /\ Idle
    /\ \E method \in Methods("data.get"), c \in Cookies :
        LET status == IF method # "GET" THEN 405
                      ELSE IF ~isAuthenticated(c) THEN 401 ELSE 200
        IN /\ req' = Answered("data.get", method, c, status)
           /\ log' = IF status = 200 THEN Reads(DATA_KEYS) ELSE <<>>
    /\ UNCHANGED <<secret, now, cookie, blobs>>
    /\ UNCHANGED libVars

\* DELETE /api/data.
DataDelete ==
    /\ Idle
    /\ \E method \in Methods("data.delete"), c \in Cookies :
        LET status == IF method # "DELETE" THEN 405
                      ELSE IF ~isAuthenticated(c) THEN 401 ELSE 200
            urls == {key \in DOMAIN blobs : blobs[key] # Null}
        IN /\ req' = Answered("data.delete", method, c, status)
           /\ log' = IF status # 200 THEN <<>>
                     ELSE <<[e |-> "list"]>>
                          \o (IF urls # {} THEN <<[e |-> "del"]>> ELSE <<>>)
           /\ blobs' = IF status = 200 THEN NoBlobs ELSE blobs
    /\ UNCHANGED <<secret, now, cookie>>
    /\ UNCHANGED libVars

FetchCycle == FetchStart \/ FetchRequest \/ FetchResponse \/ FetchFinish
InitService == Fresh /\ stored = Undef /\ data = NoData
NextService == FetchCycle \/ ChatPost \/ DataGet \/ DataDelete
SpecService == InitService /\ [][NextService]_vars

-----------------------------------------------------------------------------
(* Properties of computeDerived *)

Computed == derived # Undef

TopLevelKeys ==
    {"fromGlobal", "fromBitcoinChart", "fromTopCoins", "fromDiscovery", "fromExchangePulse"}

\* C1: whenever every raw input is independently absent, null or a well-shaped
\* payload, computeDerived returns normally (it does not throw) a record that
\* carries all five sub-record keys.
C1_ReturnsAllKeys ==
    Computed => /\ derived # Threw
                /\ IsObject(derived)
                /\ TopLevelKeys \subseteq DOMAIN derived

\* A call with some payloads null, some undefined and some well-shaped has returned.
C1_Witness ==
    /\ Computed
    /\ data.global = Null /\ data.trending = Undef /\ data.categories = Null
    /\ data.topCoins = GoodTopCoins /\ data.bitcoinChart = GoodChart
    /\ data.coinbaseSpot = Undef /\ data.krakenTicker = GoodKraken

\* The price series of the input, its length and its i-th price.
HasSeries == IsObject(data.bitcoinChart) /\ IsArray(Get(data.bitcoinChart, "prices"))
SeriesLen == IF HasSeries THEN Len(data.bitcoinChart.prices.a) ELSE 0
PriceAt(i) == data.bitcoinChart.prices.a[i].a[2].n

chart == derived.fromBitcoinChart

\* C2: for every price series with fewer than 200 samples, ma50, ma200,
\* currentPrice and trend are all four null.
C2_ShortSeriesAllNull ==
    (Computed /\ SeriesLen \in 1..(MA_LONG_DAYS - 1)) =>
        /\ chart.ma50 = Null
        /\ chart.ma200 = Null
        /\ chart.currentPrice = Null
        /\ chart.trend = Null

\* Exact comparison of two rationals.
RatLess(a, b) == a.n * b.d < b.n * a.d
BothAverages == chart.ma50.k = "num" /\ chart.ma200.k = "num"

\* C3: trend is golden_cross iff both averages are non-null and ma50 > ma200,
\* death_cross iff both are non-null and ma50 < ma200, neutral iff both are
\* non-null and equal, and null iff at least one average is null.
C3_TrendClassification ==
    Computed =>
        /\ chart.trend = Str(<<"golden_cross">>) <=> (BothAverages /\ RatLess(chart.ma200, chart.ma50))
        /\ chart.trend = Str(<<"death_cross">>) <=> (BothAverages /\ RatLess(chart.ma50, chart.ma200))
        /\ chart.trend = Str(<<"neutral">>) <=> (BothAverages /\ chart.ma50 = chart.ma200)
        /\ chart.trend = Null <=> (chart.ma50 = Null \/ chart.ma200 = Null)

\* A series whose two averages are equal has been classified neutral.
C3_Witness ==
    /\ Computed /\ SeriesLen >= MA_LONG_DAYS
    /\ chart.ma50 = chart.ma200 /\ chart.trend = Str(<<"neutral">>)

\* The sum of the prices of samples lo..hi.
RECURSIVE PriceSum(_, _)
PriceSum(lo, hi) ==
    IF lo > hi THEN 0
    ELSE IF lo = hi THEN PriceAt(lo)
    ELSE PriceSum(lo, (lo + hi) \div 2) + PriceSum((lo + hi) \div 2 + 1, hi)

\* C4: for a series of n >= 200 samples, ma50 is the mean of the prices of
\* samples n-49..n, ma200 the mean of the prices of samples n-199..n, and
\* currentPrice is the price of sample n.
C4_TrailingMeans ==
    (Computed /\ SeriesLen >= MA_LONG_DAYS) =>
        /\ chart.ma50 = Rat(PriceSum(SeriesLen - 49, SeriesLen), 50)
        /\ chart.ma200 = Rat(PriceSum(SeriesLen - 199, SeriesLen), 200)
        /\ chart.currentPrice = Num(PriceAt(SeriesLen))

\* A series longer than 200 samples whose sample just before the 200-window
\* stands out from its neighbours has been averaged.
C4_Witness ==
    /\ Computed /\ SeriesLen > MA_LONG_DAYS
    /\ PriceAt(SeriesLen - 200) > PriceAt(SeriesLen - 199) + 100

\* The total market cap and total volume the global snapshot carries.
GlobalRoot == Coalesce(Get(Coalesce(data.global, EmptyObj), "data"), Coalesce(data.global, EmptyObj))
RawCap == OptGet(Get(GlobalRoot, "total_market_cap"), "usd")
RawVol == OptGet(Get(GlobalRoot, "total_volume"), "usd")
IsNum(v) == v.k = "num"

\* What totalVolume / totalMarketCap is for a positive cap.
ExpectedRatio ==
    IF IsNum(ToNumber(RawVol))
    THEN Rat(ToNumber(RawVol).n * ToNumber(RawCap).d, ToNumber(RawVol).d * ToNumber(RawCap).n)
    ELSE NaN

\* C5 as stated: volumeRatio is null exactly when total volume or total market
\* cap is absent or the cap is exactly zero, and is the quotient otherwise.
C5_NullOnlyWhenAbsentOrZero ==
    Computed =>
        IF IsNullish(RawVol) \/ IsNullish(RawCap) \/ ToNumber(RawCap) = Num(0)
        THEN derived.fromGlobal.volumeRatio = Null
        ELSE /\ derived.fromGlobal.volumeRatio # Null
             /\ IsNum(ToNumber(RawCap)) => derived.fromGlobal.volumeRatio = ExpectedRatio

\* C5 amended: volumeRatio is null exactly when total volume or total market cap
\* is absent or the cap is not a number greater than zero (zero, negative or
\* not numeric); otherwise it is totalVolume / totalMarketCap (NaN when the
\* volume is not numeric).
C5_NullUnlessPositiveCap ==
    Computed =>
        IF IsNullish(RawVol) \/ IsNullish(RawCap)
           \/ ~(IsNum(ToNumber(RawCap)) /\ ToNumber(RawCap).n > 0)
        THEN derived.fromGlobal.volumeRatio = Null
        ELSE derived.fromGlobal.volumeRatio = ExpectedRatio

\* A snapshot with a volume and a negative market cap has been derived.
C5_Witness ==
    /\ Computed
    /\ IsNum(RawVol) /\ IsNum(RawCap) /\ RawCap.n < 0
    /\ derived.fromGlobal.volumeRatio = Null

\* The quotes as the inputs carry them.
RawCoinbase == OptGet(OptGet(data.coinbaseSpot, "data"), "amount")
RawKrakenList == OptGet(OptGet(OptGet(data.krakenTicker, "result"), "XXBTZUSD"), "c")
RawKraken == IF IsArray(RawKrakenList) /\ Len(RawKrakenList.a) > 0 THEN RawKrakenList.a[1] ELSE Undef
MissingOrZero(q) == IsNullish(q) \/ ToNumber(q) = Num(0)
pulse == derived.fromExchangePulse

\* C6: deriveExchangePulse returns null whenever the Coinbase or the Kraken
\* quote is missing or coerces to 0; whenever it returns a record,
\* priceDisparity is |coinbasePrice - krakenPrice| and isVolatile is true iff
\* priceDisparity is strictly greater than 50.
C6_DisparityAndVolatility ==
    Computed =>
        /\ (MissingOrZero(RawCoinbase) \/ MissingOrZero(RawKraken)) => pulse = Null
        /\ pulse # Null =>
            /\ IF IsNum(pulse.coinbasePrice) /\ IsNum(pulse.krakenPrice)
               THEN pulse.priceDisparity =
                        Rat(Abs(pulse.coinbasePrice.n * pulse.krakenPrice.d
                                - pulse.krakenPrice.n * pulse.coinbasePrice.d),
                            pulse.coinbasePrice.d * pulse.krakenPrice.d)
               ELSE pulse.priceDisparity = NaN
            /\ pulse.isVolatile.b <=>
                (IsNum(pulse.priceDisparity)
                 /\ pulse.priceDisparity.n > 50 * pulse.priceDisparity.d)

\* Two quotes exactly 50 apart have been derived and are not volatile.
C6_Witness ==
    /\ Computed /\ pulse # Null
    /\ pulse.priceDisparity = Num(50) /\ pulse.isVolatile = Bool(FALSE)

\* A quote that is present but does not parse as a number.
NonNumeric(q) == q.k = "str" /\ ToNumber(q) = NaN

\* C7: deriveExchangePulse returns null for the whole sub-record whenever the
\* Coinbase amount or the Kraken last-trade value is present but non-numeric,
\* and never returns a record whose coinbasePrice, krakenPrice or
\* priceDisparity is not a number.
C7_NonNumericQuoteGivesNull ==
    Computed =>
        /\ (NonNumeric(RawCoinbase) \/ NonNumeric(RawKraken)) => pulse = Null
        /\ pulse # Null =>
            (IsNum(pulse.coinbasePrice) /\ IsNum(pulse.krakenPrice) /\ IsNum(pulse.priceDisparity))

\* C11: computeDerived returns a value and never throws also for malformed
\* payloads (lists with null or non-object elements, fields of the wrong type).
C11_MalformedNeverThrows == Computed => IsObject(derived)

GlobalLeaves ==
    {"volumeRatio", "btcDominancePercent", "ethDominancePercent",
     "marketMomentum24hPercent", "updatedAt"}

\* C12: every numeric leaf of fromGlobal is null or a real number for every
\* input; a non-numeric or absent upstream field gives null, never NaN.
C12_GlobalLeavesNullOrNumber ==
    Computed =>
        \A leaf \in GlobalLeaves :
            derived.fromGlobal[leaf] = Null \/ IsNum(derived.fromGlobal[leaf])

\* The sub-records that do not read a given source.
SiblingsOf(key) ==
    {"fromGlobal", "fromBitcoinChart", "fromTopCoins", "fromDiscovery"}
    \ (CASE key = "global" -> {"fromGlobal"}
         [] key = "bitcoinChart" -> {"fromBitcoinChart"}
         [] key = "topCoins" -> {"fromTopCoins"}
         [] key \in {"trending", "categories"} -> {"fromDiscovery"}
         [] OTHER -> {})

\* A sub-record of a result; a call that threw has produced none.
SubRecordOf(result, sub) == IF IsObject(result) THEN result[sub] ELSE Threw

\* The result of the call on the same payloads but for one source.
ResultWith(key, payload) ==
    LET d == [data EXCEPT ![key] = payload]
    IN computeDerived(d.global, d.topCoins, d.bitcoinChart, d.trending, d.categories,
                      d.coinbaseSpot, d.krakenTicker, d.binancePrice, nowMs)

\* C13: two calls that differ in one raw source only agree on every sub-record
\* that does not depend on that source; a missing or bad source neither changes
\* nor removes a sibling sub-record.
C13_SiblingsIndependent ==
    Computed =>
        \A key \in SourceKeys : \A payload \in {Null, Good(key)} \cup Bad(key) :
            \A sub \in SiblingsOf(key) :
                SubRecordOf(ResultWith(key, payload), sub) = SubRecordOf(derived, sub)

\* The ranked list of the input and the 24h change at each position.
Ranked == IF IsArray(data.topCoins) THEN data.topCoins.a ELSE <<>>
ChangeAt(i) == Ranked[i].price_change_percentage_24h
WithChange == {i \in 1..Len(Ranked) : ChangeAt(i).k \notin {"undef", "null"}}
Positive == {i \in WithChange : ToNumber(ChangeAt(i)).k = "num" /\ ToNumber(ChangeAt(i)).n > 0}
topResult == derived.fromTopCoins

\* C14: marketBreadthAbove50Percent is null iff no entry carries a non-null 24h
\* change; otherwise it is 100 * (entries with a strictly positive change) /
\* (entries with a non-null change): a change of 0 counts in the denominator
\* only, an entry without a change nowhere.
C14_BreadthOfNonNullChanges ==
    Computed =>
        IF WithChange = {} THEN topResult.marketBreadthAbove50Percent = Null
        ELSE topResult.marketBreadthAbove50Percent
                = Rat(100 * Cardinality(Positive), Cardinality(WithChange))

\* A list with a zero change, a missing change and a positive change.
C14_Witness ==
    /\ Computed
    /\ \E i \in WithChange : ChangeAt(i) = Num(0)
    /\ \E i \in 1..Len(Ranked) : i \notin WithChange
    /\ Positive # {}
    /\ topResult.marketBreadthAbove50Percent # Null

\* The positions lo..hi of the original list that carry a numeric change, and
\* the sum of those changes.
NumericIn(lo, hi) == {i \in lo..hi : i <= Len(Ranked) /\ ChangeAt(i).k = "num"}
RECURSIVE ChangeSum(_, _)
ChangeSum(lo, hi) ==
    IF lo > hi THEN 0
    ELSE IF lo = hi THEN (IF lo \in NumericIn(lo, lo) THEN ChangeAt(lo).n ELSE 0)
    ELSE LET mid == (lo + hi) \div 2
         IN ChangeSum(lo, mid) + ChangeSum(mid + 1, hi)

SegmentMean(lo, hi) ==
    IF NumericIn(lo, hi) = {} THEN Null
    ELSE Rat(ChangeSum(lo, hi), Cardinality(NumericIn(lo, hi)))

\* C15: avgPriceChange24hTop10 is the mean of the numeric 24h changes among
\* positions 1..10 of the original list, avgPriceChange24hNext90 the mean among
\* positions 11..100 of the original list; positions beyond 100 never
\* contribute, and an average is null iff its segment has no numeric change.
C15_PositionalSegmentMeans ==
    Computed =>
        /\ topResult.avgPriceChange24hTop10 = SegmentMean(1, TOP10_END)
        /\ topResult.avgPriceChange24hNext90 = SegmentMean(TOP10_END + 1, NEXT90_END)

\* A list longer than 100 whose entry past position 100 differs from the
\* second segment, and whose first segment holds an entry without a change.
C15_Witness ==
    /\ Computed /\ Len(Ranked) > NEXT90_END
    /\ \E i \in 1..TOP10_END : i \notin WithChange
    /\ topResult.avgPriceChange24hNext90 # Null
    /\ ChangeAt(Len(Ranked)).k = "num"
    /\ Num(ChangeAt(Len(Ranked)).n) # topResult.avgPriceChange24hNext90

\* The trending entries of the input and the rank each one carries.
TrendingEntries ==
    IF IsObject(data.trending) /\ "coins" \in DOMAIN data.trending
       /\ IsArray(data.trending.coins)
    THEN data.trending.coins.a ELSE <<>>
RankAt(i) ==
    LET e == TrendingEntries[i]
    IN IF "item" \in DOMAIN e /\ IsObject(e.item) THEN e.item.market_cap_rank ELSE Undef
RankAbove(i, limit) == RankAt(i).k = "num" /\ RankAt(i).n > limit * RankAt(i).d
discoveryResult == derived.fromDiscovery

\* C16: hypeVsMarketCapDivergence is true iff the trending list is non-empty
\* and the rank of its first entry is strictly greater than 100; later entries
\* never affect it, and an absent list or a first entry without a rank gives
\* false.
C16_HypeFromFirstRank ==
    Computed =>
        (discoveryResult.hypeVsMarketCapDivergence
            = Bool(TrendingEntries # <<>> /\ RankAbove(1, TOP_TREND_RANK_LIMIT)))

\* The first entry ranks within the top 100, a later one beyond it.
C16_Witness ==
    /\ Computed /\ Len(TrendingEntries) > 1
    /\ ~RankAbove(1, TOP_TREND_RANK_LIMIT)
    /\ \E i \in 2..Len(TrendingEntries) : RankAbove(i, TOP_TREND_RANK_LIMIT)
    /\ discoveryResult.hypeVsMarketCapDivergence = Bool(FALSE)

\* C17: retailMoonshotPresence is true iff some entry of the whole trending
\* list, at any position (also after the five shown as labels), has a rank
\* strictly greater than 500.
C17_MoonshotAnywhere ==
    Computed =>
        (discoveryResult.retailMoonshotPresence
            = Bool(\E i \in 1..Len(TrendingEntries) : RankAbove(i, MOONSHOT_RANK_LIMIT)))

\* The only rank beyond 500 belongs to an entry that is not shown as a label.
C17_Witness ==
    /\ Computed
    /\ \E i \in 1..Len(TrendingEntries) :
            i > TOP_TRENDING_SHOWN /\ RankAbove(i, MOONSHOT_RANK_LIMIT)
    /\ \A i \in 1..Len(TrendingEntries) :
            i <= TOP_TRENDING_SHOWN => ~RankAbove(i, MOONSHOT_RANK_LIMIT)
    /\ discoveryResult.retailMoonshotPresence = Bool(TRUE)

\* The categories of the input, the ones carrying a numeric change, and the
\* sectors listed in the result.
Categories == IF IsArray(data.categories) THEN data.categories.a ELSE <<>>
NumericCategories ==
    {i \in 1..Len(Categories) : Categories[i].market_cap_change_24h.k = "num"}
listedSectors == discoveryResult.topPerformingSectors.a
ListedFrom(i, j) ==
    /\ listedSectors[j].name = Categories[i].name
    /\ listedSectors[j].change24h = Categories[i].market_cap_change_24h
Min(a, b) == IF a < b THEN a ELSE b

\* C18: topPerformingSectors holds only categories that carry a numeric 24h
\* change, has length min(3, number of such categories), is ordered by
\* non-increasing change, and no omitted category with a numeric change has a
\* strictly greater change than a listed one.
C18_TopSectorsOfNumericChanges ==
    Computed =>
        /\ \A j \in 1..Len(listedSectors) : \E i \in NumericCategories : ListedFrom(i, j)
        /\ Len(listedSectors) = Min(TOP_SECTORS_SHOWN, Cardinality(NumericCategories))
        /\ \A j \in 1..(Len(listedSectors) - 1) :
                ~JsLt(listedSectors[j].change24h, listedSectors[j + 1].change24h)
        /\ \A i \in NumericCategories :
                (\A j \in 1..Len(listedSectors) : ~ListedFrom(i, j))
                    => \A j \in 1..Len(listedSectors) :
                            ~JsGt(Categories[i].market_cap_change_24h, listedSectors[j].change24h)

\* C19: with the trending and category inputs absent or null, fromDiscovery is
\* exactly two empty lists and two false flags; for every input no field of
\* fromDiscovery is null.
C19_DiscoveryDefaults ==
    Computed =>
        /\ IsObject(derived)
        /\ (IsNullish(data.trending) /\ IsNullish(data.categories))
            => discoveryResult = [k |-> "obj", topTrendingCoins |-> Arr(<<>>),
                            topPerformingSectors |-> Arr(<<>>),
                            hypeVsMarketCapDivergence |-> Bool(FALSE),
                            retailMoonshotPresence |-> Bool(FALSE)]
        /\ IsArray(discoveryResult.topTrendingCoins)
        /\ IsArray(discoveryResult.topPerformingSectors)
        /\ discoveryResult.hypeVsMarketCapDivergence \in {Bool(TRUE), Bool(FALSE)}
        /\ discoveryResult.retailMoonshotPresence \in {Bool(TRUE), Bool(FALSE)}

\* computeDerived has run on an undefined trending payload and a null
\* category payload.
C19_Witness ==
    /\ Computed /\ data.trending = Undef /\ data.categories = Null
    /\ discoveryResult.topTrendingCoins = Arr(<<>>)

\* The reference price of the premium: the current price of the same result's
\* chart sub-record, or 0 without one.
ReferencePrice == IF IsNullish(chart.currentPrice) THEN Num(0) ELSE chart.currentPrice
Difference(a, b) ==
    IF IsNum(a) /\ IsNum(b) THEN Rat(a.n * b.d - b.n * a.d, a.d * b.d) ELSE NaN

\* C20: in every result whose fromExchangePulse is non-null, usExchangePremium
\* equals coinbasePrice minus the reference price, the reference being
\* fromBitcoinChart.currentPrice of the same result when non-null, else 0.
C20_PremiumAgainstChartPrice ==
    (Computed /\ pulse # Null) =>
        pulse.usExchangePremium = Difference(pulse.coinbasePrice, ReferencePrice)

\* A premium against a chart price, and one against the default 0.
C20_Witness ==
    /\ Computed /\ pulse # Null
    /\ chart.currentPrice = Num(1000) /\ chart.ma50 = Null
    /\ IsNum(pulse.usExchangePremium) /\ pulse.usExchangePremium.n < 0

\* The price field of the Binance payload, as the input carries it.
RawBinancePrice(bn) == IF IsObject(bn) /\ "price" \in DOMAIN bn THEN bn.price ELSE Undef
PulseMathFields ==
    {"coinbasePrice", "krakenPrice", "priceDisparity", "usExchangePremium", "isVolatile"}

\* C21: the Binance quote influences only binancePrice: for the same Coinbase,
\* Kraken and reference inputs, any two Binance inputs give results that agree
\* on the null-ness of the sub-record and on every other field; an absent or
\* empty Binance price gives binancePrice = null.
C21_BinanceOnlyInBinancePrice ==
    Computed =>
        \A bn \in BinanceInputs :
            LET other == ResultWith("binancePrice", bn).fromExchangePulse
            IN /\ (other = Null) <=> (pulse = Null)
               /\ pulse # Null =>
                    /\ \A f \in PulseMathFields : other[f] = pulse[f]
                    /\ (IsNullish(RawBinancePrice(bn)) \/ RawBinancePrice(bn) = Str(<<>>))
                        => other.binancePrice = Null

\* A result with a Binance price next to the two mandatory quotes.
C21_Witness ==
    /\ Computed /\ pulse # Null
    /\ RawBinancePrice(data.binancePrice) = Str(<<"5", "2">>)
    /\ pulse.binancePrice = Num(52)

\* The snapshot an enveloped payload carries under `data`.
EnvelopeOf(g) == IF IsObject(g) /\ "data" \in DOMAIN g THEN g.data ELSE Undef

\* C22: the enveloped and the flat shape of the global snapshot are
\* equivalent: a payload carrying the fields under `data` gives the same
\* fromGlobal as the payload carrying them at top level, and a present
\* envelope is the one consulted, whatever sits at top level beside it.
C22_EnvelopeEquivalent ==
    (Computed /\ IsObject(EnvelopeOf(data.global))) =>
        derived.fromGlobal = ResultWith("global", EnvelopeOf(data.global)).fromGlobal

\* An enveloped payload with other values at top level has been derived.
C22_Witness ==
    /\ Computed /\ IsObject(EnvelopeOf(data.global))
    /\ "total_market_cap" \in DOMAIN data.global
    /\ IsNum(derived.fromGlobal.volumeRatio)
    /\ derived.fromGlobal.btcDominancePercent = Num(52)

StrictlyDecreasing == \A i \in 1..(SeriesLen - 1) : PriceAt(i) > PriceAt(i + 1)
Constant == \A i \in 1..SeriesLen : PriceAt(i) = PriceAt(1)

Timeless(result) == [f \in DOMAIN result \ {"computedAt"} |-> result[f]]

C25_NullWithoutMarketCap ==
    (Computed /\ (IsNullish(RawCap) \/ ToNumber(RawCap) = Num(0)))
        => derived.fromGlobal.volumeRatio = Null

\* A zero market cap under a large volume.
C25_Witness ==
    /\ Computed /\ RawCap = Num(0) /\ RawVol = Num(3000)
    /\ derived.fromGlobal.volumeRatio = Null

\* What the claim calls a verifying signature and an expiry, in its own terms.
SignatureVerifies(c) ==
    /\ Len(c.parts) = 2
    /\ secret # ""
    /\ c.parts[2].key = secret /\ c.parts[2].msg = c.parts[1]
ExpiryLaterThanNow(c) ==
    /\ c.parts[1].json /\ c.parts[1].exp.k = "num"
    /\ c.parts[1].exp.n > now * c.parts[1].exp.d
SevenDaysMs == 7 * 24 * 3600 * 1000

\* C29: isAuthenticated accepts a request iff its session cookie holds a token
\* whose signature verifies under the current APP_PASSWORD and whose expiry is
\* strictly later than now; the token a successful login issued at time t
\* authenticates at every time before t + 7 days and at none from then on; no
\* token authenticates while APP_PASSWORD is unset or after it has changed;
\* a login with a wrong password issues no token.
C29_SessionValidity ==
    /\ \A c \in Presentable :
        /\ isAuthenticated(c)
            <=> (c # Null /\ SignatureVerifies(c) /\ ExpiryLaterThanNow(c))
        /\ secret = "" => ~isAuthenticated(c)
        /\ (c # Null /\ Len(c.parts) = 2 /\ c.parts[2].key # secret)
            => ~isAuthenticated(c)
    /\ cookie # Null =>
        LET t == cookie.parts[1].t.n
        IN IF secret = cookie.parts[2].key
           THEN isAuthenticated(cookie) <=> now < t + SevenDaysMs
           ELSE ~isAuthenticated(cookie)
    /\ (req.route = "login" /\ req.status = 200) =>
        (req.password = req.secret /\ req.token # Null)
    /\ (req.route = "login" /\ req.password # req.secret) =>
        req.status # 200 /\ req.token = Null
    /\ req.route = "session" =>
        (req.status = 200 => (req.cookie # Null /\ req.cookie.parts[2].key = req.secret))

\* A login at time 1 succeeded and its cookie is presented seven days later
\* to the instant: the session check refuses it.
C29_Witness ==
    /\ cookie # Null /\ cookie.parts[1].t = Num(1)
    /\ now = 1 + SevenDaysMs
    /\ req.route = "session" /\ req.cookie = cookie /\ req.at = now
    /\ req.status = 401

PrimarySources == {"global", "topCoins", "bitcoinChart"}
Did(j, e, key) == log[j].e = e /\ log[j].key = key
DerivedPut == \E j \in DOMAIN log : Did(j, "put", "derived")
FetchedWell(key) ==
    \E j \in DOMAIN log : Did(j, "response", key) /\ log[j].isOk /\ log[j].hasData

\* C26: in a fetch cycle the derived blob is written only if global, topCoins
\* and bitcoinChart were all fetched successfully with non-null data in that
\* same cycle; if any of the three failed, the cycle writes no derived blob.
C26_DerivedOnlyFromCompleteCycle ==
    (req.route = "fetch" /\ DerivedPut) => \A key \in PrimarySources : FetchedWell(key)

\* A cycle whose three sources answered well has written the derived blob.
C26_Witness ==
    /\ req.route = "fetch" /\ req.status = 200 /\ DerivedPut
    /\ blobs.derived # Null /\ blobs.derived.fromBitcoinChart.trend = Str(<<"golden_cross">>)

\* C27: after any sequence of completed fetch cycles the persisted snapshot
\* is consistent: a stored derived blob was computed from exactly the raw
\* global, topCoins and bitcoinChart blobs stored at that moment.
C27_SnapshotConsistent ==
    (Idle /\ blobs.derived # Null) =>
        /\ \A key \in PrimarySources : blobs[key] # Null
        /\ Timeless(blobs.derived)
            = Timeless(JsonRoundTrip(computeDerivedInlined(blobs.global, blobs.topCoins,
                                                           blobs.bitcoinChart, now)))

\* The session of a request, in the claim's terms.
ValidSession(c) == c # Null /\ SignatureVerifies(c) /\ ExpiryLaterThanNow(c)
Gated == {"fetch", "chat", "data.get", "data.delete"}
OwnMethod(route) == IF route = "data.get" THEN "GET"
                    ELSE IF route = "data.delete" THEN "DELETE" ELSE "POST"

SourceIndex(key) == CHOOSE i \in 0..(Len(FETCH_SOURCES) - 1) : FETCH_SOURCES[i + 1].key = key
RequestsBefore(j) == {h \in 1..(j - 1) : log[h].e = "request"}
ConfiguredPause ==
    IF req.pauseSetting = Undef THEN Num(DEFAULT_PAUSE_MS_BETWEEN_SAME_VENDOR)
    ELSE ToNumber(req.pauseSetting)
PauseDue(i) ==
    /\ i > 0
    /\ FETCH_SOURCES[i + 1].hostname = FETCH_SOURCES[i].hostname
    /\ ConfiguredPause.k = "num" /\ ConfiguredPause.n > 0

-----------------------------------------------------------------------------
(* Persisted values of every shape, for buildContext *)

GlobalSubs ==
    {Undef, Null, EmptyObj,
     [k |-> "obj", volumeRatio |-> Rat(1, 40), btcDominancePercent |-> Num(52),
      ethDominancePercent |-> Null, marketMomentum24hPercent |-> Rat(-1, 2),
      updatedAt |-> Num(123)]}

ChartSubs ==
    {Null,
     [k |-> "obj", ma50 |-> Null, ma200 |-> Null, currentPrice |-> Null, trend |-> Null],
     [k |-> "obj", ma50 |-> Rat(124001, 2), ma200 |-> Num(60000),
      currentPrice |-> Num(63000), trend |-> Str(<<"golden_cross">>)]}

TopSubs ==
    {Null,
     [k |-> "obj", marketBreadthAbove50Percent |-> Null, avgPriceChange24hTop10 |-> Null,
      avgPriceChange24hNext90 |-> Null],
     [k |-> "obj", marketBreadthAbove50Percent |-> Num(50), avgPriceChange24hTop10 |-> Rat(1, 2),
      avgPriceChange24hNext90 |-> Null]}

Discovery(coins, sectors, hype, moon) ==
    [k |-> "obj", topTrendingCoins |-> coins, topPerformingSectors |-> sectors,
     hypeVsMarketCapDivergence |-> hype, retailMoonshotPresence |-> moon]

Sector(name, change) == [k |-> "obj", name |-> name, change24h |-> change]

DiscoverySubs ==
    {Null, EmptyObj,
     Discovery(Arr(<<>>), Arr(<<>>), Bool(FALSE), Bool(FALSE)),
     Discovery(Arr(<<Str(<<"Alpha", " (", "A", ")">>)>>),
               Arr(<<Sector(Str(<<"AI">>), Num(5)), Sector(Str(<<"DeFi">>), Rat(-3, 2))>>),
               Bool(TRUE), Bool(TRUE)),
     Discovery(Arr(<<>>), Arr(<<[k |-> "obj", name |-> Str(<<"AI">>)]>>), Null, Null),
     Discovery(Arr(<<>>), Arr(<<Sector(Str(<<"AI">>), Str(<<"5">>))>>), Bool(FALSE), Bool(FALSE)),
     Discovery(Arr(<<>>), Arr(<<Null>>), Bool(FALSE), Bool(FALSE))}

Pulse(cb, kr, bn, disparity, premium, volatile) ==
    [k |-> "obj", coinbasePrice |-> cb, krakenPrice |-> kr, binancePrice |-> bn,
     priceDisparity |-> disparity, usExchangePremium |-> premium, isVolatile |-> volatile]

PulseSubs ==
    {Undef, Null, EmptyObj,
     Pulse(Num(60100), Num(60040), Num(60052), Num(60), Num(100), Bool(TRUE)),
     Pulse(Null, Num(60040), Null, Null, Null, Bool(FALSE))}

StoredShapes ==
    {Undef, Null, Str(<<"x">>)}
    \cup {[k |-> "obj", fromGlobal |-> g, fromBitcoinChart |-> c, fromTopCoins |-> t,
           fromDiscovery |-> d, fromExchangePulse |-> x, computedAt |-> Num(1)] :
            g \in GlobalSubs, c \in ChartSubs, t \in TopSubs, d \in DiscoverySubs,
            x \in PulseSubs}

CapOnlyGlobal == [k |-> "obj", total_market_cap |-> [k |-> "obj", usd |-> Num(2000)]]

\* A persisted derived value of any shape beside the raw global and topCoins blobs.
InitCtx ==
    /\ Fresh
    /\ stored \in StoredShapes
    /\ \E g \in {Undef, EmptyObj, GoodGlobal, CapOnlyGlobal},
          t \in {Undef, Arr(<<>>), GoodTopCoins} :
            data = [NoData EXCEPT !.global = g, !.topCoins = t]
SpecCtx == InitCtx /\ [][BuildContext]_vars

-----------------------------------------------------------------------------
(* Properties of buildContext *)

Built == context # Undef
Range(f) == {f[i] : i \in DOMAIN f}
IsText(v) == v.k = "str"
\* The string is not '': some token of it has a character.
NonEmptyText(v) == \E i \in 1..Len(v.s) : v.s[i] # ""

ReadGlobal == blobRead(data.global)
ReadTopCoins == blobRead(data.topCoins)

SubRecords == TopLevelKeys
\* A sub-record that is null, missing, an empty object, or whose fields are all
\* null, empty lists or false.
SubRecordEmpty(x) ==
    \/ IsNullish(x)
    \/ /\ IsObject(x)
       /\ \A f \in DOMAIN x \ {"k"} :
            IsNullish(x[f]) \/ x[f] = Arr(<<>>) \/ x[f] = Bool(FALSE)

AllSubRecordsEmpty(d) ==
    IsObject(d) /\ \A sub \in SubRecords : SubRecordEmpty(Get(d, sub))

\* C8 as stated: buildContext never returns the empty string, and for a
\* DerivedMetrics value whose sub-records are all null or empty, with no raw
\* global snapshot and no ranked list, it returns exactly the fallback line.
C8_FallbackWhenAllEmpty ==
    (Built /\ IsText(context)) =>
        /\ NonEmptyText(context)
        /\ (AllSubRecordsEmpty(chatDerived) /\ IsNullish(ReadGlobal) /\ IsNullish(ReadTopCoins))
            => context = Str(<<FALLBACK_LINE>>)

\* C9: buildContext returns a string, without throwing, for every shape of the
\* persisted derived value.
C9_NeverThrows == Built => (context # Threw /\ IsText(context))

\* The line of a field, recognised by its fixed label.
HasLine(label) == label \in Range(context.s)
FieldMissing(sub, f) == IsNullish(OptGet(OptGet(chatDerived, sub), f))

FieldLabels ==
    {<<"fromGlobal", "volumeRatio", L_VOLUME_RATIO>>,
     <<"fromGlobal", "btcDominancePercent", L_BTC_DOMINANCE>>,
     <<"fromGlobal", "ethDominancePercent", L_ETH_DOMINANCE>>,
     <<"fromGlobal", "marketMomentum24hPercent", L_MOMENTUM>>,
     <<"fromBitcoinChart", "ma50", L_MA50>>,
     <<"fromBitcoinChart", "ma200", L_MA200>>,
     <<"fromBitcoinChart", "trend", L_TREND>>,
     <<"fromTopCoins", "marketBreadthAbove50Percent", L_BREADTH>>,
     <<"fromDiscovery", "topTrendingCoins", L_TRENDING>>,
     <<"fromDiscovery", "topPerformingSectors", L_SECTORS>>,
     <<"fromDiscovery", "hypeVsMarketCapDivergence", L_HYPE>>,
     <<"fromDiscovery", "retailMoonshotPresence", L_MOONSHOT>>,
     <<"fromExchangePulse", "coinbasePrice", L_PULSE>>,
     <<"fromExchangePulse", "krakenPrice", L_PULSE_KRAKEN>>,
     <<"fromExchangePulse", "binancePrice", L_PULSE_BINANCE>>,
     <<"fromExchangePulse", "priceDisparity", L_DISPARITY>>,
     <<"fromExchangePulse", "usExchangePremium", L_PREMIUM>>,
     <<"fromExchangePulse", "isVolatile", L_STRESS>>}

\* C10: for every field of the DerivedMetrics value that is null or missing,
\* the output of buildContext holds no line for that field and no placeholder
\* standing in for it (no price is printed for a missing coinbasePrice or
\* krakenPrice).
C10_NoLineForNullField ==
    (Built /\ IsText(context) /\ IsObject(chatDerived)) =>
        \A fl \in FieldLabels : FieldMissing(fl[1], fl[2]) => ~HasLine(fl[3])

=============================================================================
